---------------------------- MODULE Spec2Model ----------------------------
(***************************************************************************)
(* Caching / de-duplication / admission layer of kana-dojo.                *)
(*                                                                         *)
(*   client  : translate()            src/unnamed/part_000, lines 220-434  *)
(*   server  : POST /api/translate    src/unnamed/part_001                 *)
(*   server  : POST /api/analyze-text src/unnamed/part_002                 *)
(*                                                                         *)
(* Times are milliseconds, as in the source.  A JavaScript Map is a        *)
(* sequence of entries in insertion order (Map iteration order), a cache   *)
(* key is the tuple of the parts the source concatenates with ':'.         *)
(***************************************************************************)
EXTENDS Integers, Sequences, FiniteSets, TLC

(***************************************************************************)
(* Bounds of the model.                                                    *)
(***************************************************************************)
\* requests in one behaviour: translate() invocations on the client plus
\* POST requests to the two server routes
MaxCalls == 2
\* advances of the clock in one behaviour
MaxTicks == 1
\* half of the maximum size of the client cache (the source's 100 is
\* 2 * 50), of the translation cache (500 is 2 * 250) and of the analysis
\* cache (200 is 2 * 100)
ClientHalf == 1
TranslationHalf == 2
AnalysisHalf == 2

(***************************************************************************)
(* Program constants.                                                      *)
(***************************************************************************)
CLIENT_CACHE_TTL == 1000 * 60 * 30
MAX_CLIENT_CACHE_SIZE == 2 * ClientHalf
MAX_TEXT_LENGTH == 5000
\* part_001 lines 13-15
CACHE_TTL == 1000 * 60 * 60
MAX_CACHE_SIZE == 2 * TranslationHalf
CLEANUP_INTERVAL == 1000 * 60 * 5
\* part_002 lines 37-39
ANALYSIS_CACHE_TTL == 1000 * 60 * 60
ANALYSIS_MAX_CACHE_SIZE == 2 * AnalysisHalf
ANALYSIS_CLEANUP_INTERVAL == 1000 * 60 * 5

\* Date.now() when the behaviour starts.  The process is already running:
\* the caches are empty or hold what earlier requests left (WarmCache).
\* One day after the epoch keeps every sum inside TLC's integers.
StartTime == 1000 * 60 * 60 * 24

(***************************************************************************)
(* Inputs.                                                                 *)
(***************************************************************************)
Whitespace == {" "}
Language == {"en", "ja"}
\* arguments of translate(): a text, the same text with leading whitespace,
\* another text, the first text in the other direction, the empty text
ClientRequests ==
    {[text |-> <<"a">>, source |-> "en", target |-> "ja"],
     [text |-> <<" ", "a">>, source |-> "en", target |-> "ja"],
     [text |-> <<"b">>, source |-> "en", target |-> "ja"],
     [text |-> <<"a">>, source |-> "ja", target |-> "en"],
     [text |-> <<>>, source |-> "en", target |-> "ja"]}
\* texts of the requests served before the behaviour starts
WarmTexts ==
    {<<"w", ToString(n)>> :
        n \in 1..(MAX_CLIENT_CACHE_SIZE + MAX_CACHE_SIZE + ANALYSIS_MAX_CACHE_SIZE)}
\* how far the clock may jump in one step: the time to live of the client
\* cache, and on the server the time to live of the routes' caches
Deltas == {CLIENT_CACHE_TTL}
ServerDeltas == {CACHE_TTL}

(***************************************************************************)
(* String.prototype.trim                                                   *)
(***************************************************************************)
RECURSIVE TrimStart(_)
TrimStart(s) ==
    IF s # <<>> /\ Head(s) \in Whitespace THEN TrimStart(Tail(s)) ELSE s

RECURSIVE TrimEnd(_)
TrimEnd(s) ==
    IF s # <<>> /\ s[Len(s)] \in Whitespace
    THEN TrimEnd(SubSeq(s, 1, Len(s) - 1))
    ELSE s

trim(s) == TrimEnd(TrimStart(s))

(***************************************************************************)
(* Map operations (insertion-ordered, as a JavaScript Map).                *)
(***************************************************************************)
MapHas(m, key) == \E i \in 1..Len(m) : m[i].key = key

MapGet(m, key) == m[CHOOSE i \in 1..Len(m) : m[i].key = key]

\* Map.set: a new key is appended, an existing key keeps its position
MapSet(m, entry) ==
    IF MapHas(m, entry.key)
    THEN [i \in 1..Len(m) |-> IF m[i].key = entry.key THEN entry ELSE m[i]]
    ELSE Append(m, entry)

RECURSIVE MapFilter(_, _)
\* the entries of m whose key is in keep, in order
MapFilter(m, keep) ==
    IF m = <<>> THEN <<>>
    ELSE IF Head(m).key \in keep
         THEN <<Head(m)>> \o MapFilter(Tail(m), keep)
         ELSE MapFilter(Tail(m), keep)

MapKeys(m) == {m[i].key : i \in 1..Len(m)}

MapDelete(m, key) == MapFilter(m, MapKeys(m) \ {key})

(***************************************************************************)
(* Client state.                                                           *)
(***************************************************************************)
VARIABLES
    now,              \* Date.now()
    ticks,            \* clock advances so far
    clientCache,      \* Map key -> {response, timestamp}
    pendingRequests,  \* Map key -> requestPromise (index into promises)
    promises,         \* the requestPromise objects created so far
    calls,            \* the translate() invocations so far and their promises
    microtasks        \* the job queue of the event loop

clientVars == <<clientCache, pendingRequests, promises, calls, microtasks>>

(***************************************************************************)
(* State of the translate route (part_001).                                *)
(***************************************************************************)
VARIABLES
    translationCache,      \* Map key -> {translatedText, romanization, timestamp}
    lastCleanupTime,
    kuroshiroInstance,     \* 0 is null, else the construction that built it
    kuroshiroInitPromise,  \* 0 is null, else the construction whose promise it holds
    kuroshiroInits,        \* the constructions started so far: their promises
    translateLimiter,      \* state of getTranslateRateLimiter()
    posts                  \* the POST /api/translate requests so far

translateVars ==
    <<translationCache, lastCleanupTime, kuroshiroInstance, kuroshiroInitPromise,
      kuroshiroInits,
      translateLimiter, posts>>

(***************************************************************************)
(* State of the analyze route (part_002).                                  *)
(***************************************************************************)
VARIABLES
    analysisCache,         \* Map text -> {tokens, timestamp}
    analysisLastCleanupTime,
    analyzerInstance,      \* kuroshiroInstance of part_002; 0 is null
    analyzeLimiter,        \* state of getAnalyzeRateLimiter()
    analyses               \* the POST /api/analyze-text requests so far

analyzeVars ==
    <<analysisCache, analysisLastCleanupTime, analyzerInstance, analyzeLimiter,
      analyses>>

(***************************************************************************)
(* State of the useVoiceInput hook (part_000 lines 24-162) and of the      *)
(* SpeechRecognition object it drives, and state of the stats store        *)
(* (useStatsStore.ts).                                                     *)
(***************************************************************************)
VARIABLES
    voice,   \* the hook: its React state, its callbacks, the recognition
    stats    \* the timed counters of the stats store, per mode

uiVars == <<voice, stats>>

vars == <<now, ticks, uiVars, clientVars, translateVars, analyzeVars>>

(***************************************************************************)
(* useVoiceInput.  The recognition raises its events in tasks of the       *)
(* event loop; React renders after a state change, and until it does the   *)
(* callbacks in use are those of the last render, with its isListening.    *)
(***************************************************************************)
\* calls of recognition.start() in one behaviour
MaxStarts == 3

\* the hook before its effects have run: the useState initial values
VoiceInitial ==
    [mounted |-> FALSE, isSupported |-> FALSE, recognition |-> FALSE,
     isListening |-> FALSE, rendered |-> FALSE, error |-> "null",
     transcript |-> "", session |-> "idle", stopRequested |-> FALSE,
     starts |-> 0, startedTwice |-> FALSE]

\* lines 37-43 and 46-104: the effects after the first render; where the
\* browser has the API the recognition is created and kept in the ref
VoiceMount(supported) ==
    /\ ~voice.mounted
    /\ voice' = [voice EXCEPT !.mounted = TRUE, !.isSupported = supported,
                              !.recognition = supported]
    /\ UNCHANGED <<now, ticks, stats, clientVars, translateVars, analyzeVars>>

\* lines 130-146: startListening, with the isListening of the last render.
\* recognition.start() throws when the recognition has been started and
\* has not ended; the catch block reports it
StartListening ==
    /\ voice.mounted
    /\ voice' =
          IF ~voice.isSupported
          THEN [voice EXCEPT !.error = "not supported"]
          ELSE IF voice.recognition /\ ~voice.rendered /\ voice.starts < MaxStarts
          THEN IF voice.session = "idle"
               THEN [voice EXCEPT !.session = "started", !.starts = @ + 1]
               ELSE [voice EXCEPT !.error = "failed to start", !.starts = @ + 1,
                                  !.startedTwice = TRUE]
          ELSE voice
    /\ UNCHANGED <<now, ticks, stats, clientVars, translateVars, analyzeVars>>

\* lines 148-152: stopListening, with the isListening of the last render
StopListening ==
    /\ voice.mounted
    /\ voice.recognition /\ voice.rendered
    /\ voice' = IF voice.session = "idle" THEN voice
                ELSE [voice EXCEPT !.stopRequested = TRUE]
    /\ UNCHANGED <<now, ticks, stats, clientVars, translateVars, analyzeVars>>

\* lines 60-64: onstart
VoiceOnStart ==
    /\ voice.session = "started"
    /\ voice' = [voice EXCEPT !.session = "listening", !.isListening = TRUE,
                              !.error = "null", !.transcript = ""]
    /\ UNCHANGED <<now, ticks, stats, clientVars, translateVars, analyzeVars>>

\* lines 66-75: onresult
VoiceOnResult ==
    /\ voice.session = "listening"
    /\ voice' = [voice EXCEPT !.transcript = "text"]
    /\ UNCHANGED <<now, ticks, stats, clientVars, translateVars, analyzeVars>>

\* lines 77-100: onerror; the recognition ends after it, with onend
VoiceOnError ==
    /\ voice.session \in {"started", "listening"}
    /\ voice' = [voice EXCEPT !.session = "failed", !.isListening = FALSE,
                              !.error = "recognition error"]
    /\ UNCHANGED <<now, ticks, stats, clientVars, translateVars, analyzeVars>>

\* lines 102-104: onend
VoiceOnEnd ==
    /\ voice.session \in {"listening", "failed"}
    /\ voice' = [voice EXCEPT !.session = "idle", !.isListening = FALSE,
                              !.stopRequested = FALSE]
    /\ UNCHANGED <<now, ticks, stats, clientVars, translateVars, analyzeVars>>

\* React renders after setIsListening: startListening and stopListening are
\* created again with the new isListening (the dependencies of lines 146, 152)
VoiceRender ==
    /\ voice.rendered # voice.isListening
    /\ voice' = [voice EXCEPT !.rendered = voice.isListening]
    /\ UNCHANGED <<now, ticks, stats, clientVars, translateVars, analyzeVars>>

NextVoice ==
    \/ \E supported \in BOOLEAN : VoiceMount(supported)
    \/ StartListening
    \/ StopListening
    \/ VoiceOnStart
    \/ VoiceOnResult
    \/ VoiceOnError
    \/ VoiceOnEnd
    \/ VoiceRender

(***************************************************************************)
(* The timed counters of useStatsStore, one set per mode.                  *)
(***************************************************************************)
\* answers counted in one mode between two resets
MaxAnswers == 3

\* kana (timed...), vocab (timedVocab...), kanji (timedKanji...)
TimedModes == {"kana", "vocab", "kanji"}

Max(a, b) == IF a >= b THEN a ELSE b

\* lines 306-309, 327-330, 357-360
StatsInitial ==
    [mode \in TimedModes |->
        [correctAnswers |-> 0, wrongAnswers |-> 0, streak |-> 0, bestStreak |-> 0]]

\* a helper that takes the new streak for the best streak
createTimedCorrectIncrement_NoMax(s) ==
    [s EXCEPT !.correctAnswers = @ + 1, !.streak = s.streak + 1,
              !.bestStreak = s.streak + 1]

\* lines 201-215
createTimedCorrectIncrement(s) ==
    LET newStreak == s.streak + 1 IN
    [s EXCEPT !.correctAnswers = @ + 1, !.streak = newStreak,
              !.bestStreak = Max(s.bestStreak, newStreak)]

\* lines 218-226
createTimedWrongIncrement(s) ==
    [s EXCEPT !.wrongAnswers = @ + 1, !.streak = 0]

\* incrementTimedCorrectAnswers and the same of the other modes
IncrementTimedCorrectAnswers(mode) ==
    /\ stats[mode].correctAnswers + stats[mode].wrongAnswers < MaxAnswers
    /\ stats' = [stats EXCEPT ![mode] = createTimedCorrectIncrement(@)]
    /\ UNCHANGED <<now, ticks, voice, clientVars, translateVars, analyzeVars>>

\* incrementTimedWrongAnswers and the same of the other modes
IncrementTimedWrongAnswers(mode) ==
    /\ stats[mode].correctAnswers + stats[mode].wrongAnswers < MaxAnswers
    /\ stats' = [stats EXCEPT ![mode] = createTimedWrongIncrement(@)]
    /\ UNCHANGED <<now, ticks, voice, clientVars, translateVars, analyzeVars>>

\* resetTimedStats and the same of the other modes
ResetTimedStats(mode) ==
    /\ stats' = [stats EXCEPT ![mode] =
                    [@ EXCEPT !.correctAnswers = 0, !.wrongAnswers = 0, !.streak = 0]]
    /\ UNCHANGED <<now, ticks, voice, clientVars, translateVars, analyzeVars>>

NextStats ==
    \E mode \in TimedModes :
        \/ IncrementTimedCorrectAnswers(mode)
        \/ IncrementTimedWrongAnswers(mode)
        \/ ResetTimedStats(mode)


\* requests made so far, on the client and on both routes
Requests == Len(calls) + Len(posts) + Len(analyses)

\* Another request may start on the module whose requests so far are own.
\* The client layer and the two routes share no state, so a behaviour
\* spends its requests on one of them.
MayStart(own) == Requests < MaxCalls /\ Requests = Len(own)

\* outcome of a promise: pending, fulfilled with a response, rejected with
\* a TranslationAPIError
Pending == [state |-> "pending", response |-> 0, code |-> "", status |-> 0]
Fulfilled(r) == [state |-> "fulfilled", response |-> r, code |-> "", status |-> 0]
Rejected(c, s) == [state |-> "rejected", response |-> 0, code |-> c, status |-> s]

getClientCacheKey(text, source, target) == <<source, target, trim(text)>>

\* the lookup with the comparison <= in place of <
ClientCacheHit_AtTTL(key) ==
    /\ MapHas(clientCache, key)
    /\ now - MapGet(clientCache, key).timestamp <= CLIENT_CACHE_TTL

\* cached && Date.now() - cached.timestamp < CLIENT_CACHE_TTL
ClientCacheHit(key) ==
    /\ MapHas(clientCache, key)
    /\ now - MapGet(clientCache, key).timestamp < CLIENT_CACHE_TTL

\* the keys of the entries older than ttl at time t (now - timestamp > ttl)
ExpiredKeys(cache, t, ttl) ==
    {cache[i].key : i \in {j \in 1..Len(cache) : t - cache[j].timestamp > ttl}}

cleanupClientCache(cache, t) ==
    IF Len(cache) > MAX_CLIENT_CACHE_SIZE
    THEN MapFilter(cache, MapKeys(cache) \ ExpiredKeys(cache, t, CLIENT_CACHE_TTL))
    ELSE cache

(***************************************************************************)
(* Promises and the job queue.  A promise keeps its reactions in the       *)
(* order they were registered; settling it queues one job per reaction in  *)
(* that order (ECMAScript TriggerPromiseReactions), and jobs run first in, *)
(* first out.                                                              *)
(***************************************************************************)
IsSettled(p) == promises[p].outcome.state # "pending"

\* the jobs queued when promise p settles
ReactionJobs(p) ==
    [i \in 1..Len(promises[p].reactions) |->
        [t |-> promises[p].reactions[i].t, c |-> promises[p].reactions[i].c, p |-> p]]

\* promises and microtasks after requestPromise p settles with outcome o
\* (ext records how the external call itself ended, cached whether the body
\* it delivered carries cached: true)
SettlePromise(p, o, ext, cached) ==
    /\ promises' = [promises EXCEPT ![p].outcome = o, ![p].io = "done",
                                    ![p].ext = ext, ![p].cached = cached,
                                    ![p].reactions = <<>>]
    /\ microtasks' = microtasks \o ReactionJobs(p)

\* a registry lookup that never finds a call
PendingRequestsGet_NeverFound(key) == 0

\* a registry lookup by the text alone, whatever the languages
PendingRequestsGet_ByText(key) ==
    IF \E i \in 1..Len(pendingRequests) : pendingRequests[i].key[3] = key[3]
    THEN pendingRequests[CHOOSE i \in 1..Len(pendingRequests) :
                            pendingRequests[i].key[3] = key[3]].promise
    ELSE 0

\* the promise registered for key, 0 when there is none (pendingRequests.get)
PendingRequestsGet(key) ==
    IF MapHas(pendingRequests, key) THEN MapGet(pendingRequests, key).promise ELSE 0

\* the requestPromise objects of key whose external call has not settled
InFlight(key) ==
    {p \in 1..Len(promises) : promises[p].key = key /\ promises[p].io # "done"}

\* the requestPromise objects of key whose outcome has not reached the
\* invocation that dispatched them
Undelivered(key) ==
    {p \in 1..Len(promises) :
        promises[p].key = key /\ calls[promises[p].by].outcome.state = "pending"}

\* the age of key's entry at this moment, -1 when the cache has none
EntryAge(cache, key) ==
    IF MapHas(cache, key) THEN now - MapGet(cache, key).timestamp ELSE -1

\* one translate() invocation: its arguments, the path it took, the promise
\* it hands to its caller (outcome), and what held when it was invoked
NewCall(text, source, target, path, p, o) ==
    [text |-> text, source |-> source, target |-> target,
     key |-> getClientCacheKey(text, source, target),
     path |-> path, promise |-> p, outcome |-> o, waiting |-> TRUE,
     settles |-> IF o.state = "pending" THEN 0 ELSE 1,
     age |-> EntryAge(clientCache, getClientCacheKey(text, source, target)),
     live |-> InFlight(getClientCacheKey(text, source, target)),
     open |-> Undelivered(getClientCacheKey(text, source, target))]

RECURSIVE WarmCache(_, _)
\* a cache left by n earlier successful requests, all stored at time t
WarmCache(n, t) ==
    IF n = 0 THEN <<>>
    ELSE Append(WarmCache(n - 1, t),
                [key |-> <<"en", "ja", CHOOSE w \in WarmTexts : w[2] = ToString(n)>>,
                 response |-> 0, timestamp |-> t])

(***************************************************************************)
(* translate(text, sourceLanguage, targetLanguage), part_000 308-434.      *)
(* The synchronous part of one invocation is one step; onLine is what      *)
(* navigator.onLine reads at that moment.                                  *)
(***************************************************************************)
\* !text || text.trim().length === 0, then text.length > 5000
ClientInvalid(text) ==
    \/ text = <<>>
    \/ Len(trim(text)) = 0
    \/ Len(text) > MAX_TEXT_LENGTH

\* lines 314-321
TranslateOffline(text, source, target, onLine) ==
    /\ MayStart(calls)
    /\ ~onLine
    /\ calls' = Append(calls, NewCall(text, source, target, "offline", 0,
                                       Rejected("OFFLINE", 0)))
    /\ UNCHANGED <<now, ticks, uiVars, clientCache, pendingRequests, promises, microtasks,
                   translateVars, analyzeVars>>

\* lines 324-340
TranslateInvalid(text, source, target, onLine) ==
    /\ MayStart(calls)
    /\ onLine
    /\ ClientInvalid(text)
    /\ calls' = Append(calls, NewCall(text, source, target, "invalid", 0,
                                       Rejected("INVALID_INPUT", 400)))
    /\ UNCHANGED <<now, ticks, uiVars, clientCache, pendingRequests, promises, microtasks,
                   translateVars, analyzeVars>>

\* a hit that takes the entry out of the cache
TranslateCacheHit_TakesEntry(text, source, target, onLine) ==
    LET key == getClientCacheKey(text, source, target) IN
    /\ MayStart(calls)
    /\ onLine
    /\ ~ClientInvalid(text)
    /\ ClientCacheHit(key)
    /\ calls' = Append(calls, NewCall(text, source, target, "hit", 0,
                                       Fulfilled(MapGet(clientCache, key).response)))
    /\ clientCache' = MapDelete(clientCache, key)
    /\ UNCHANGED <<now, ticks, uiVars, pendingRequests, promises, microtasks,
                   translateVars, analyzeVars>>

\* lines 343-347
TranslateCacheHit(text, source, target, onLine) ==
    LET key == getClientCacheKey(text, source, target) IN
    /\ MayStart(calls)
    /\ onLine
    /\ ~ClientInvalid(text)
    /\ ClientCacheHit(key)
    /\ calls' = Append(calls, NewCall(text, source, target, "hit", 0,
                                       Fulfilled(MapGet(clientCache, key).response)))
    /\ UNCHANGED <<now, ticks, uiVars, clientCache, pendingRequests, promises, microtasks,
                   translateVars, analyzeVars>>

\* lines 351-354: return pendingRequest.  The async function's promise is
\* resolved with a promise, which queues a job that calls pendingRequest.then
TranslateJoin(text, source, target, onLine) ==
    LET key == getClientCacheKey(text, source, target)
        pendingRequest == PendingRequestsGet(key)
    IN
    /\ MayStart(calls)
    /\ onLine
    /\ ~ClientInvalid(text)
    /\ ~ClientCacheHit(key)
    /\ pendingRequest # 0
    /\ calls' = Append(calls, NewCall(text, source, target, "join",
                                       pendingRequest, Pending))
    /\ microtasks' = Append(microtasks,
            [t |-> "thenable", c |-> Len(calls) + 1, p |-> pendingRequest])
    /\ UNCHANGED <<now, ticks, uiVars, clientCache, pendingRequests, promises,
                   translateVars, analyzeVars>>

\* lines 357-369 and 426-429: the async function runs to its first await
\* (fetch is called), the promise is registered, and await requestPromise
\* registers the invocation's continuation as the promise's first reaction
TranslateDispatch(text, source, target, onLine) ==
    LET key == getClientCacheKey(text, source, target)
        p == Len(promises) + 1
        c == Len(calls) + 1
    IN
    /\ MayStart(calls)
    /\ onLine
    /\ ~ClientInvalid(text)
    /\ ~ClientCacheHit(key)
    /\ PendingRequestsGet(key) = 0
    /\ promises' = Append(promises,
            [key |-> key, io |-> "fetch", ok |-> FALSE, httpStatus |-> 0,
             ext |-> "pending", cached |-> FALSE, outcome |-> Pending, by |-> c,
             reactions |-> <<[t |-> "resume", c |-> c]>>])
    /\ pendingRequests' = MapSet(pendingRequests, [key |-> key, promise |-> p])
    /\ calls' = Append(calls, NewCall(text, source, target, "dispatch", p, Pending))
    /\ UNCHANGED <<now, ticks, uiVars, clientCache, microtasks, translateVars, analyzeVars>>

(***************************************************************************)
(* The external call.  fetch and Response.json settle in tasks of the      *)
(* event loop, which run when the job queue is empty; the continuation of  *)
(* the async function is the only job such a task queues, so the task and  *)
(* that continuation are one step.                                         *)
(***************************************************************************)
\* what fetch('/api/translate') settles with
FetchResults ==
    {[kind |-> "response", status |-> 200],
     [kind |-> "response", status |-> 429],
     [kind |-> "TypeError", status |-> 0]}

\* what fetchResponse.json() settles with: the parsed body or a SyntaxError.
\* The body of a success carries cached: true when the route answered from
\* its cache (part_001 242-246) and no such field otherwise (346-350).
JsonResults(ok) ==
    IF ok
    THEN {[kind |-> "data", code |-> "", cached |-> b] : b \in BOOLEAN}
            \cup {[kind |-> "SyntaxError", code |-> "", cached |-> FALSE]}
    ELSE {[kind |-> "data", code |-> c, cached |-> FALSE] : c \in {"RATE_LIMIT", ""}}
            \cup {[kind |-> "SyntaxError", code |-> "", cached |-> FALSE]}

\* the body of the p-th external call's success response: distinct calls
\* are given distinct bodies, so a result is traced to the call it is from;
\* 0 is the body of every call made before the behaviour starts
ResponseOf(p) == p

\* whether the response object carries cached: true; the objects stored
\* before the behaviour starts (0) are the bodies of misses
MarkedCached(response) == response # 0 /\ promises[response].cached

\* a catch block that returns an empty result in place of throwing
ClientCatch_Swallows(kind, code, status) == Fulfilled(0)

\* a catch block that reports a failed request as no connectivity
ClientCatch_NetworkAsOffline(kind, code, status) ==
    CASE kind = "TranslationAPIError" -> Rejected(code, status)
      [] kind = "TypeError" -> Rejected("OFFLINE", 0)
      [] OTHER -> Rejected("API_ERROR", 500)

\* the catch block, lines 393-422: a TranslationAPIError is rethrown, a
\* TypeError becomes NETWORK_ERROR, anything else API_ERROR
ClientCatch(kind, code, status) ==
    CASE kind = "TranslationAPIError" -> Rejected(code, status)
      [] kind = "TypeError" -> Rejected("NETWORK_ERROR", 0)
      [] OTHER -> Rejected("API_ERROR", 500)

\* lines 359-371: fetch settles; on a response the function goes on to
\* await fetchResponse.json(), on a rejection to the catch block
FetchSettles(p, r) ==
    /\ microtasks = <<>>
    /\ promises[p].io = "fetch"
    /\ IF r.kind = "response"
       THEN /\ promises' = [promises EXCEPT ![p].io = "json",
                                ![p].ok = (r.status \in 200..299),
                                ![p].httpStatus = r.status]
            /\ UNCHANGED microtasks
       ELSE SettlePromise(p, ClientCatch(r.kind, "", 0), "failed", FALSE)
    /\ UNCHANGED <<now, ticks, uiVars, clientCache, pendingRequests, calls,
                   translateVars, analyzeVars>>

\* the put placed before the check of fetchResponse.ok
ClientCacheAfterJson_BeforeOkCheck(p, d) ==
    IF d.kind = "data"
    THEN cleanupClientCache(
            MapSet(clientCache, [key |-> promises[p].key,
                                 response |-> ResponseOf(p),
                                 timestamp |-> now]), now)
    ELSE clientCache

\* a put that is skipped when no caller waits for the call any more
ClientCacheAfterJson_OnlyIfAwaited(p, d) ==
    IF /\ d.kind = "data" /\ promises[p].ok
       /\ \E c \in 1..Len(calls) : calls[c].promise = p /\ calls[c].waiting
    THEN cleanupClientCache(
            MapSet(clientCache, [key |-> promises[p].key,
                                 response |-> ResponseOf(p),
                                 timestamp |-> now]), now)
    ELSE clientCache

\* a call that returns its result without putting it into the cache
ClientCacheAfterJson_NoPut(p, d) == clientCache

\* lines 385-390: clientCache.set and cleanupClientCache, reached only when
\* the body parsed and the response was ok
ClientCacheAfterJson(p, d) ==
    IF d.kind = "data" /\ promises[p].ok
    THEN cleanupClientCache(
            MapSet(clientCache, [key |-> promises[p].key,
                                 response |-> ResponseOf(p),
                                 timestamp |-> now]), now)
    ELSE clientCache

\* lines 371-392: the body is parsed; an error response is thrown as a
\* TranslationAPIError, a success is cached and returned
JsonSettles(p, d) ==
    /\ microtasks = <<>>
    /\ promises[p].io = "json"
    /\ d \in JsonResults(promises[p].ok)
    /\ clientCache' = ClientCacheAfterJson(p, d)
    /\ IF d.kind = "SyntaxError"
       THEN SettlePromise(p, ClientCatch("SyntaxError", "", 0), "failed", FALSE)
       ELSE IF ~promises[p].ok
       THEN SettlePromise(p, ClientCatch("TranslationAPIError",
                    IF d.code # "" THEN d.code ELSE "API_ERROR",
                    promises[p].httpStatus), "failed", FALSE)
       ELSE SettlePromise(p, Fulfilled(ResponseOf(p)), "ok", d.cached)
    /\ UNCHANGED <<now, ticks, uiVars, pendingRequests, calls, translateVars, analyzeVars>>

(***************************************************************************)
(* Jobs.                                                                   *)
(***************************************************************************)
\* a finally block that empties the registry
FinallyDelete_ClearsAll(registry, key, outcome) == <<>>

\* finally { pendingRequests.delete(cacheKey) }, lines 430-433
FinallyDelete(registry, key, outcome) == MapDelete(registry, key)

\* lines 428-433: the invocation that dispatched the call resumes from
\* await requestPromise, runs the finally block and settles its own promise
OriginatorResume ==
    /\ microtasks # <<>>
    /\ Head(microtasks).t = "resume"
    /\ LET c == Head(microtasks).c
           p == Head(microtasks).p
       IN /\ pendingRequests' =
                FinallyDelete(pendingRequests, calls[c].key, promises[p].outcome)
          /\ calls' = [calls EXCEPT ![c].outcome = promises[p].outcome,
                                    ![c].settles = @ + 1]
    /\ microtasks' = Tail(microtasks)
    /\ UNCHANGED <<now, ticks, uiVars, clientCache, promises, translateVars, analyzeVars>>

\* the job queued by return pendingRequest: pendingRequest.then(resolve,
\* reject) registers a reaction, or queues it when the promise has settled
ResolveThenableJob ==
    /\ microtasks # <<>>
    /\ Head(microtasks).t = "thenable"
    /\ LET c == Head(microtasks).c
           p == Head(microtasks).p
       IN IF IsSettled(p)
          THEN /\ microtasks' = Append(Tail(microtasks),
                                       [t |-> "react", c |-> c, p |-> p])
               /\ UNCHANGED promises
          ELSE /\ promises' = [promises EXCEPT ![p].reactions =
                                   Append(@, [t |-> "react", c |-> c])]
               /\ microtasks' = Tail(microtasks)
    /\ UNCHANGED <<now, ticks, uiVars, clientCache, pendingRequests, calls,
                   translateVars, analyzeVars>>

\* the reaction of a joined invocation: its promise takes the outcome of
\* the shared requestPromise
JoinerReaction ==
    /\ microtasks # <<>>
    /\ Head(microtasks).t = "react"
    /\ LET c == Head(microtasks).c
           p == Head(microtasks).p
       IN calls' = [calls EXCEPT ![c].outcome = promises[p].outcome,
                                 ![c].settles = @ + 1]
    /\ microtasks' = Tail(microtasks)
    /\ UNCHANGED <<now, ticks, uiVars, clientCache, pendingRequests, promises,
                   translateVars, analyzeVars>>

\* the caller of invocation c stops waiting for the promise translate
\* returned to it.  translate takes a text and two languages (lines 308-312)
\* and calls fetch without a signal (359-369): the caller holds nothing but
\* the promise, and what it does with it is unknown to the module
CallerStopsWaiting(c) ==
    /\ calls[c].waiting
    /\ calls[c].outcome.state = "pending"
    /\ calls' = [calls EXCEPT ![c].waiting = FALSE]
    /\ UNCHANGED <<now, ticks, uiVars, clientCache, pendingRequests, promises, microtasks,
                   translateVars, analyzeVars>>

\* time passes, between two tasks of the event loop
Tick(d) ==
    /\ ticks < MaxTicks
    /\ microtasks = <<>>
    /\ now' = now + d
    /\ ticks' = ticks + 1
    /\ UNCHANGED <<uiVars, clientVars, translateVars, analyzeVars>>

NextClient ==
    \/ \E r \in ClientRequests, onLine \in BOOLEAN :
          \/ TranslateOffline(r.text, r.source, r.target, onLine)
          \/ TranslateInvalid(r.text, r.source, r.target, onLine)
          \/ TranslateCacheHit(r.text, r.source, r.target, onLine)
          \/ TranslateJoin(r.text, r.source, r.target, onLine)
          \/ TranslateDispatch(r.text, r.source, r.target, onLine)
    \/ \E p \in 1..Len(promises) : \E r \in FetchResults : FetchSettles(p, r)
    \/ \E p \in 1..Len(promises) :
          \E d \in JsonResults(TRUE) \cup JsonResults(FALSE) : JsonSettles(p, d)
    \/ OriginatorResume
    \/ ResolveThenableJob
    \/ JoinerReaction
    \/ \E d \in Deltas : Tick(d)

\* the client layer with callers that may stop waiting
NextAbandon ==
    \/ NextClient
    \/ \E c \in 1..Len(calls) : CallerStopsWaiting(c)

(***************************************************************************)
(* Admission controller.  '@/shared/lib/rateLimit' is not among the        *)
(* sources; check() follows the specification, section 4.3: one counter    *)
(* and one window per tier, a request is denied when a tier's counter has  *)
(* reached its ceiling, and the reason names the daily tier before the     *)
(* global tier before the per-client tier.                                 *)
(***************************************************************************)
ClientIPs == {"ip1", "ip2"}
PER_CLIENT_LIMIT == 1
GLOBAL_LIMIT == 2
DAILY_LIMIT == 3
PER_CLIENT_WINDOW == 1000 * 60
GLOBAL_WINDOW == 1000 * 60
DAILY_WINDOW == 1000 * 60 * 60 * 24

Tier(count, start) == [count |-> count, start |-> start]

NewLimiter ==
    [client |-> [ip \in ClientIPs |-> Tier(0, 0)],
     global |-> Tier(0, 0),
     daily |-> Tier(0, 0)]

\* a tier whose window has elapsed starts a new window
Rolled(tier, window, t) ==
    IF t - tier.start >= window THEN Tier(0, t) ELSE tier

CeilSeconds(ms) == (ms + 999) \div 1000

\* a check that leaves out the daily tier
RateLimitCheck_DailyUnchecked(lim, ip, t) ==
    LET c == Rolled(lim.client[ip], PER_CLIENT_WINDOW, t)
        g == Rolled(lim.global, GLOBAL_WINDOW, t)
        d == Rolled(lim.daily, DAILY_WINDOW, t)
        rolled == [client |-> [lim.client EXCEPT ![ip] = c], global |-> g, daily |-> d]
    IN
    IF g.count >= GLOBAL_LIMIT
    THEN [allowed |-> FALSE, reason |-> "global_limit",
          retryAfter |-> CeilSeconds(g.start + GLOBAL_WINDOW - t), state |-> rolled]
    ELSE IF c.count >= PER_CLIENT_LIMIT
    THEN [allowed |-> FALSE, reason |-> "rate_limit",
          retryAfter |-> CeilSeconds(c.start + PER_CLIENT_WINDOW - t), state |-> rolled]
    ELSE [allowed |-> TRUE, reason |-> "", retryAfter |-> 0,
          state |-> [client |-> [lim.client EXCEPT ![ip] = Tier(c.count + 1, c.start)],
                     global |-> Tier(g.count + 1, g.start),
                     daily |-> Tier(d.count + 1, d.start)]]

\* check(clientIP): the decision and the limiter's next state
RateLimitCheck(lim, ip, t) ==
    LET c == Rolled(lim.client[ip], PER_CLIENT_WINDOW, t)
        g == Rolled(lim.global, GLOBAL_WINDOW, t)
        d == Rolled(lim.daily, DAILY_WINDOW, t)
        rolled == [client |-> [lim.client EXCEPT ![ip] = c], global |-> g, daily |-> d]
    IN
    IF d.count >= DAILY_LIMIT
    THEN [allowed |-> FALSE, reason |-> "daily_quota",
          retryAfter |-> CeilSeconds(d.start + DAILY_WINDOW - t), state |-> rolled]
    ELSE IF g.count >= GLOBAL_LIMIT
    THEN [allowed |-> FALSE, reason |-> "global_limit",
          retryAfter |-> CeilSeconds(g.start + GLOBAL_WINDOW - t), state |-> rolled]
    ELSE IF c.count >= PER_CLIENT_LIMIT
    THEN [allowed |-> FALSE, reason |-> "rate_limit",
          retryAfter |-> CeilSeconds(c.start + PER_CLIENT_WINDOW - t), state |-> rolled]
    ELSE [allowed |-> TRUE, reason |-> "", retryAfter |-> 0,
          state |-> [client |-> [lim.client EXCEPT ![ip] = Tier(c.count + 1, c.start)],
                     global |-> Tier(g.count + 1, g.start),
                     daily |-> Tier(d.count + 1, d.start)]]

(***************************************************************************)
(* cleanupCache, part_001 lines 26-46 and part_002 lines 46-66 (the two    *)
(* functions differ in the Map and the constants they name).               *)
(***************************************************************************)
RECURSIVE InsertByTimestamp(_, _)
\* e placed into the sorted sequence after the entries that are not newer
InsertByTimestamp(sorted, e) ==
    IF sorted = <<>> THEN <<e>>
    ELSE IF Head(sorted).timestamp <= e.timestamp
         THEN <<Head(sorted)>> \o InsertByTimestamp(Tail(sorted), e)
         ELSE <<e>> \o sorted

RECURSIVE SortByTimestamp(_)
\* entries.sort((a, b) => a[1].timestamp - b[1].timestamp): ascending, and
\* stable, so entries of equal timestamp keep their insertion order
SortByTimestamp(entries) ==
    IF entries = <<>> THEN <<>>
    ELSE InsertByTimestamp(SortByTimestamp(SubSeq(entries, 1, Len(entries) - 1)),
                           entries[Len(entries)])

\* an eviction that removes the newest entries in place of the oldest
EvictOldest_NewestFirst(cache, max) ==
    IF Len(cache) > max
    THEN LET toRemove == SubSeq(SortByTimestamp(cache), (max \div 2) + 1, Len(cache))
         IN MapFilter(cache, MapKeys(cache) \ MapKeys(toRemove))
    ELSE cache

\* an eviction that stops at the maximum in place of half the maximum
EvictOldest_DownToMax(cache, max) ==
    IF Len(cache) > max
    THEN LET toRemove == SubSeq(SortByTimestamp(cache), 1, Len(cache) - max)
         IN MapFilter(cache, MapKeys(cache) \ MapKeys(toRemove))
    ELSE cache

\* a cleanup without the size-based eviction
EvictOldest_Never(cache, max) == cache

\* lines 39-45: entries.slice(0, entries.length - max / 2) of the sorted
\* entries are deleted (max is even)
EvictOldest(cache, max) ==
    IF Len(cache) > max
    THEN LET toRemove == SubSeq(SortByTimestamp(cache), 1, Len(cache) - (max \div 2))
         IN MapFilter(cache, MapKeys(cache) \ MapKeys(toRemove))
    ELSE cache

\* a TTL sweep that runs with every cleanup
SweepDue_Always(last, t, interval) == TRUE

\* lines 29-37: the TTL sweep, at most once per interval
SweepDue(last, t, interval) == t - last > interval

\* the Map and lastCleanupTime after cleanupCache() runs at time t
cleanupCache(cache, last, t, ttl, max, interval) ==
    LET swept == IF SweepDue(last, t, interval)
                 THEN MapFilter(cache, MapKeys(cache) \ ExpiredKeys(cache, t, ttl))
                 ELSE cache
    IN [cache |-> EvictOldest(swept, max),
        last |-> IF SweepDue(last, t, interval) THEN t ELSE last]

(***************************************************************************)
(* POST /api/translate, part_001 lines 151-382.  A handler runs from one   *)
(* await to the next in one step; pc names the await it is suspended at.   *)
(***************************************************************************)
\* request bodies: a text to Japanese, the same text to English, a text of
\* whitespace, an unknown language
TranslateBodies ==
    {[text |-> <<"a">>, source |-> "en", target |-> "ja"],
     [text |-> <<"a">>, source |-> "ja", target |-> "en"],
     [text |-> <<" ">>, source |-> "en", target |-> "ja"],
     [text |-> <<"a">>, source |-> "en", target |-> "fr"]}

getCacheKey(text, source, target) == <<source, target, text>>

\* the body of a response: NextResponse.json({...}, {status})
Response(status, code, translatedText, romanization, cached, retryAfter) ==
    [status |-> status, code |-> code, translatedText |-> translatedText,
     romanization |-> romanization, cached |-> cached, retryAfter |-> retryAfter]

NoResponse == Response(0, "", 0, "", FALSE, 0)
ErrorResponse(status, code) == Response(status, code, 0, "", FALSE, 0)

\* lines 188-235: the four validations
PostInvalid(body) ==
    \/ body.text = <<>>
    \/ Len(trim(body.text)) = 0
    \/ Len(body.text) > MAX_TEXT_LENGTH
    \/ body.source \notin Language
    \/ body.target \notin Language

PostKey(r) == getCacheKey(trim(posts[r].text), posts[r].source, posts[r].target)

\* a lookup that never finds an entry
TranslationCacheHit_Never(key) == FALSE

\* cached && Date.now() - cached.timestamp < CACHE_TTL
TranslationCacheHit(key) ==
    /\ MapHas(translationCache, key)
    /\ now - MapGet(translationCache, key).timestamp < CACHE_TTL

\* a handler that goes on to read the body of a denied request
PostStart_DeniedProceeds(ip, body) ==
    LET result == RateLimitCheck(translateLimiter, ip, now) IN
    /\ MayStart(posts)
    /\ translateLimiter' = result.state
    /\ posts' = Append(posts,
          [ip |-> ip, text |-> body.text, source |-> body.source,
           target |-> body.target, admitted |-> result.allowed,
           pc |-> "body",
           age |-> -1, fetched |-> FALSE, sizeAfterSet |-> -1,
           awaits |-> 0, kuroshiro |-> 0,
           fresh |-> ~PostInvalid(body) /\ TranslationCacheHit(
                        getCacheKey(trim(body.text), body.source, body.target)),
           response |-> NoResponse])
    /\ UNCHANGED <<now, ticks, uiVars, clientVars, analyzeVars, translationCache,
                   lastCleanupTime, kuroshiroInstance, kuroshiroInitPromise,
                   kuroshiroInits>>

\* a handler that checks every request under one identity
PostStart_OneIdentity(ip, body) ==
    LET result == RateLimitCheck(translateLimiter, "ip1", now) IN
    /\ MayStart(posts)
    /\ translateLimiter' = result.state
    /\ posts' = Append(posts,
          [ip |-> ip, text |-> body.text, source |-> body.source,
           target |-> body.target, admitted |-> result.allowed,
           pc |-> IF result.allowed THEN "body" ELSE "done",
           age |-> -1, fetched |-> FALSE, sizeAfterSet |-> -1,
           awaits |-> 0, kuroshiro |-> 0,
           fresh |-> ~PostInvalid(body) /\ TranslationCacheHit(
                        getCacheKey(trim(body.text), body.source, body.target)),
           response |-> IF result.allowed THEN NoResponse
                        ELSE Response(429, "RATE_LIMIT", 0, "", FALSE,
                                      result.retryAfter)])
    /\ UNCHANGED <<now, ticks, uiVars, clientVars, analyzeVars, translationCache,
                   lastCleanupTime, kuroshiroInstance, kuroshiroInitPromise,
                   kuroshiroInits>>

\* lines 152-184: check(clientIP); a denied request is answered at once, an
\* admitted one awaits request.json()
PostStart(ip, body) ==
    LET result == RateLimitCheck(translateLimiter, ip, now) IN
    /\ MayStart(posts)
    /\ translateLimiter' = result.state
    /\ posts' = Append(posts,
          [ip |-> ip, text |-> body.text, source |-> body.source,
           target |-> body.target, admitted |-> result.allowed,
           pc |-> IF result.allowed THEN "body" ELSE "done",
           age |-> -1, fetched |-> FALSE, sizeAfterSet |-> -1,
           awaits |-> 0, kuroshiro |-> 0,
           fresh |-> ~PostInvalid(body) /\ TranslationCacheHit(
                        getCacheKey(trim(body.text), body.source, body.target)),
           response |-> IF result.allowed THEN NoResponse
                        ELSE Response(429, "RATE_LIMIT", 0, "", FALSE,
                                      result.retryAfter)])
    /\ UNCHANGED <<now, ticks, uiVars, clientVars, analyzeVars, translationCache,
                   lastCleanupTime, kuroshiroInstance, kuroshiroInitPromise,
                   kuroshiroInits>>

\* lines 184-284: validation, cache lookup, API key, fetch
PostBody(r, apiKey) ==
    LET key == PostKey(r) IN
    /\ posts[r].pc = "body"
    /\ posts' = [posts EXCEPT ![r] =
          IF PostInvalid(posts[r])
          THEN [@ EXCEPT !.pc = "done", !.response = ErrorResponse(400, "INVALID_INPUT")]
          ELSE IF TranslationCacheHit(key)
          THEN [@ EXCEPT !.pc = "done",
                         !.age = EntryAge(translationCache, key),
                         !.response = Response(200, "",
                              MapGet(translationCache, key).translatedText,
                              MapGet(translationCache, key).romanization, TRUE, 0)]
          ELSE IF ~apiKey
          THEN [@ EXCEPT !.pc = "done",
                         !.age = EntryAge(translationCache, key),
                         !.response = ErrorResponse(500, "AUTH_ERROR")]
          ELSE [@ EXCEPT !.pc = "fetch", !.fetched = TRUE,
                         !.age = EntryAge(translationCache, key)]]
    /\ UNCHANGED <<now, ticks, uiVars, clientVars, analyzeVars, translationCache,
                   lastCleanupTime, kuroshiroInstance, kuroshiroInitPromise,
                   kuroshiroInits, translateLimiter>>

\* the message of the TypeError that fetch rejects with when the request
\* could not be made, word by word
FetchFailed == <<"fetch", "failed">>

\* what fetch(googleApiUrl) settles with: a response of some status, or the
\* TypeError of a request that could not be made
GoogleResults ==
    {[kind |-> "response", status |-> 200, message |-> <<>>],
     [kind |-> "response", status |-> 429, message |-> <<>>],
     [kind |-> "response", status |-> 403, message |-> <<>>],
     [kind |-> "response", status |-> 500, message |-> <<>>],
     [kind |-> "TypeError", status |-> 0, message |-> FetchFailed]}

\* what is thrown after the provider answered ok: JSON.parse's SyntaxError
\* on a body that is not JSON (line 324), the TypeError of reading
\* data.data.translations[0] from a body of another shape (line 325)
JsonFailures ==
    {[name |-> "SyntaxError", message |-> <<"Unexpected", "token">>],
     [name |-> "TypeError", message |-> <<"Cannot", "read", "properties">>]}

\* error.message.includes(word), for a message given word by word
Includes(message, word) == \E i \in 1..Len(message) : message[i] = word

\* a catch block that takes every TypeError for a failure of the network
PostCatch_AnyTypeError(error) ==
    IF error.name = "TypeError"
    THEN ErrorResponse(503, "NETWORK_ERROR")
    ELSE ErrorResponse(500, "API_ERROR")

\* the catch block, lines 358-381
PostCatch(error) ==
    IF error.name = "TypeError" /\ Includes(error.message, "fetch")
    THEN ErrorResponse(503, "NETWORK_ERROR")
    ELSE ErrorResponse(500, "API_ERROR")

\* lines 286-322: the answer to a provider response that is not ok
PostUpstreamError(status) ==
    IF status = 429 THEN ErrorResponse(429, "RATE_LIMIT")
    ELSE IF status \in {401, 403} THEN ErrorResponse(status, "AUTH_ERROR")
    ELSE ErrorResponse(status, "API_ERROR")

\* lines 273-324: the provider call settles
PostFetchSettles(r, g) ==
    /\ posts[r].pc = "fetch"
    /\ posts' = [posts EXCEPT ![r] =
          IF g.kind # "response"
          THEN [@ EXCEPT !.pc = "done",
                         !.response = PostCatch([name |-> g.kind,
                                                 message |-> g.message])]
          ELSE IF g.status \notin 200..299
          THEN [@ EXCEPT !.pc = "done", !.response = PostUpstreamError(g.status)]
          ELSE [@ EXCEPT !.pc = "json"]]
    /\ UNCHANGED <<now, ticks, uiVars, clientVars, analyzeVars, translationCache,
                   lastCleanupTime, kuroshiroInstance, kuroshiroInitPromise,
                   kuroshiroInits, translateLimiter>>

\* a put that leaves the romanization out of the entry
PostStore_WithoutRomanization(r, romanization) ==
    LET set == MapSet(translationCache,
                   [key |-> PostKey(r), translatedText |-> r,
                    romanization |-> "", timestamp |-> now])
        cleaned == cleanupCache(set, lastCleanupTime, now,
                                CACHE_TTL, MAX_CACHE_SIZE, CLEANUP_INTERVAL)
    IN
    /\ translationCache' = cleaned.cache
    /\ lastCleanupTime' = cleaned.last
    /\ posts' = [posts EXCEPT ![r].pc = "done",
                              ![r].sizeAfterSet = Len(set),
                              ![r].response = Response(200, "", r, romanization,
                                                       FALSE, 0)]

\* lines 337-357: translationCache.set, cleanupCache(), the response.  The
\* translated text of request r is r: distinct provider calls are given
\* distinct texts; romanization "" is undefined.
PostStore(r, romanization) ==
    LET set == MapSet(translationCache,
                   [key |-> PostKey(r), translatedText |-> r,
                    romanization |-> romanization, timestamp |-> now])
        cleaned == cleanupCache(set, lastCleanupTime, now,
                                CACHE_TTL, MAX_CACHE_SIZE, CLEANUP_INTERVAL)
    IN
    /\ translationCache' = cleaned.cache
    /\ lastCleanupTime' = cleaned.last
    /\ posts' = [posts EXCEPT ![r].pc = "done",
                              ![r].sizeAfterSet = Len(set),
                              ![r].response = Response(200, "", r, romanization,
                                                       FALSE, 0)]

\* getKuroshiro, lines 85-93: a construction is started when there is
\* neither an instance nor a promise of one
StartsConstruction_IgnoresPromise == kuroshiroInstance = 0

StartsConstruction == kuroshiroInstance = 0 /\ kuroshiroInitPromise = 0

\* lines 324-335 with getKuroshiro, lines 84-111: the body of the provider's
\* response is parsed; a translation to Japanese goes on to
\* generateRomanization, which takes the instance, or awaits the promise of
\* the construction in progress, or starts a construction and awaits it
PostJsonSettles(r, parsed) ==
    /\ posts[r].pc = "json"
    /\ IF ~parsed
       THEN /\ \E e \in JsonFailures :
                  posts' = [posts EXCEPT ![r].pc = "done",
                                         ![r].response = PostCatch(e)]
            /\ UNCHANGED <<translationCache, lastCleanupTime, kuroshiroInitPromise,
                           kuroshiroInits>>
       ELSE IF posts[r].target # "ja"
       THEN /\ PostStore(r, "")
            /\ UNCHANGED <<kuroshiroInitPromise, kuroshiroInits>>
       ELSE IF kuroshiroInstance # 0
       THEN /\ posts' = [posts EXCEPT ![r].pc = "convert",
                                      ![r].kuroshiro = kuroshiroInstance]
            /\ UNCHANGED <<translationCache, lastCleanupTime, kuroshiroInitPromise,
                           kuroshiroInits>>
       ELSE IF StartsConstruction
       THEN /\ kuroshiroInits' = Append(kuroshiroInits, "pending")
            /\ kuroshiroInitPromise' = Len(kuroshiroInits) + 1
            /\ posts' = [posts EXCEPT ![r].pc = "kuroshiro",
                                      ![r].awaits = Len(kuroshiroInits) + 1]
            /\ UNCHANGED <<translationCache, lastCleanupTime>>
       ELSE /\ posts' = [posts EXCEPT ![r].pc = "kuroshiro",
                                      ![r].awaits = kuroshiroInitPromise]
            /\ UNCHANGED <<translationCache, lastCleanupTime, kuroshiroInitPromise,
                           kuroshiroInits>>
    /\ UNCHANGED <<now, ticks, uiVars, clientVars, analyzeVars, kuroshiroInstance,
                   translateLimiter>>

\* what is left in kuroshiroInitPromise when the construction it holds has
\* failed: the rejected promise (nothing in lines 93-110 clears it)
InitPromiseAfterFailure(promise) == promise

\* lines 93-108: construction i settles.  On success the instance is stored
\* and kuroshiroInitPromise set to null; a failure rejects the promise.
KuroshiroInitSettles(i, ok) ==
    /\ kuroshiroInits[i] = "pending"
    /\ kuroshiroInits' = [kuroshiroInits EXCEPT ![i] =
                             IF ok THEN "fulfilled" ELSE "rejected"]
    /\ kuroshiroInstance' = IF ok THEN i ELSE kuroshiroInstance
    /\ kuroshiroInitPromise' =
          IF ok THEN 0 ELSE InitPromiseAfterFailure(kuroshiroInitPromise)
    /\ UNCHANGED <<now, ticks, uiVars, clientVars, analyzeVars, translationCache,
                   lastCleanupTime, translateLimiter, posts>>

\* a request that lets the rejection of getKuroshiro() reach the catch
\* block of the handler
PostKuroshiroSettles_FailsRequest(r) ==
    /\ posts[r].pc = "kuroshiro"
    /\ kuroshiroInits[posts[r].awaits] # "pending"
    /\ IF kuroshiroInits[posts[r].awaits] = "fulfilled"
       THEN /\ posts' = [posts EXCEPT ![r].pc = "convert",
                                      ![r].kuroshiro = posts[r].awaits]
            /\ UNCHANGED <<translationCache, lastCleanupTime>>
       ELSE /\ posts' = [posts EXCEPT ![r].pc = "done",
                                      ![r].response = ErrorResponse(500, "API_ERROR")]
            /\ UNCHANGED <<translationCache, lastCleanupTime>>
    /\ UNCHANGED <<now, ticks, uiVars, clientVars, analyzeVars, kuroshiroInstance,
                   kuroshiroInitPromise, kuroshiroInits, translateLimiter>>

\* lines 122-133: a request that awaited getKuroshiro() resumes: with the
\* instance it calls convert, with the rejection it takes the catch block
\* and goes on without romanization
PostKuroshiroSettles(r) ==
    /\ posts[r].pc = "kuroshiro"
    /\ kuroshiroInits[posts[r].awaits] # "pending"
    /\ IF kuroshiroInits[posts[r].awaits] = "fulfilled"
       THEN /\ posts' = [posts EXCEPT ![r].pc = "convert",
                                      ![r].kuroshiro = posts[r].awaits]
            /\ UNCHANGED <<translationCache, lastCleanupTime>>
       ELSE PostStore(r, "")
    /\ UNCHANGED <<now, ticks, uiVars, clientVars, analyzeVars, kuroshiroInstance,
                   kuroshiroInitPromise, kuroshiroInits, translateLimiter>>

\* lines 124-133 and 330-335: kuroshiro.convert settles with romaji, with
\* the empty string or with an exception
ConvertResults == {"romaji", "", "throws"}

PostConvertSettles(r, romaji) ==
    /\ posts[r].pc = "convert"
    /\ PostStore(r, IF romaji = "throws" THEN "" ELSE romaji)
    /\ UNCHANGED <<now, ticks, uiVars, clientVars, analyzeVars, kuroshiroInstance,
                   kuroshiroInitPromise, kuroshiroInits, translateLimiter>>

NextTranslate ==
    \/ \E ip \in ClientIPs, body \in TranslateBodies : PostStart(ip, body)
    \/ \E r \in 1..Len(posts), apiKey \in BOOLEAN : PostBody(r, apiKey)
    \/ \E r \in 1..Len(posts), g \in GoogleResults : PostFetchSettles(r, g)
    \/ \E r \in 1..Len(posts), parsed \in BOOLEAN : PostJsonSettles(r, parsed)
    \/ \E i \in 1..Len(kuroshiroInits), ok \in BOOLEAN : KuroshiroInitSettles(i, ok)
    \/ \E r \in 1..Len(posts) : PostKuroshiroSettles(r)
    \/ \E r \in 1..Len(posts), romaji \in ConvertResults : PostConvertSettles(r, romaji)

(***************************************************************************)
(* POST /api/analyze-text, part_002 lines 157-254.                         *)
(***************************************************************************)
\* texts of the request bodies: a text, another text, whitespace
AnalyzeTexts == {<<"a">>, <<"b">>, <<" ">>}

\* the body of a response: tokens 0 is none; the error responses of this
\* route carry the fields error and, on a denial, code and retryAfter
AnalyzeResponse(status, code, tokens, cached, retryAfter) ==
    [status |-> status, code |-> code, tokens |-> tokens, cached |-> cached,
     retryAfter |-> retryAfter]

NoAnalyzeResponse == AnalyzeResponse(0, "", 0, FALSE, 0)

\* lines 191-203
AnalyzeInvalid(text) ==
    \/ text = <<>>
    \/ Len(trim(text)) = 0
    \/ Len(text) > MAX_TEXT_LENGTH

\* cached && Date.now() - cached.timestamp < CACHE_TTL, lines 206-207
AnalysisCacheHit(key) ==
    /\ MapHas(analysisCache, key)
    /\ now - MapGet(analysisCache, key).timestamp < ANALYSIS_CACHE_TTL

\* lines 158-187
AnalyzeStart(ip, text) ==
    LET result == RateLimitCheck(analyzeLimiter, ip, now) IN
    /\ MayStart(analyses)
    /\ analyzeLimiter' = result.state
    /\ analyses' = Append(analyses,
          [ip |-> ip, text |-> text, admitted |-> result.allowed,
           pc |-> IF result.allowed THEN "body" ELSE "done",
           age |-> -1, constructed |-> FALSE, sizeAfterSet |-> -1,
           fresh |-> ~AnalyzeInvalid(text) /\ AnalysisCacheHit(text),
           response |-> IF result.allowed THEN NoAnalyzeResponse
                        ELSE AnalyzeResponse(429, "RATE_LIMIT", 0, FALSE,
                                             result.retryAfter)])
    /\ UNCHANGED <<now, ticks, uiVars, clientVars, translateVars, analysisCache,
                   analysisLastCleanupTime, analyzerInstance>>

\* lines 187-220 with getKuroshiro, lines 81-87: validation, cache lookup,
\* then the instance is taken, or this request starts a construction
AnalyzeBody(r) ==
    LET key == analyses[r].text IN
    /\ analyses[r].pc = "body"
    /\ analyses' = [analyses EXCEPT ![r] =
          IF AnalyzeInvalid(analyses[r].text)
          THEN [@ EXCEPT !.pc = "done",
                         !.response = AnalyzeResponse(400, "", 0, FALSE, 0)]
          ELSE IF AnalysisCacheHit(key)
          THEN [@ EXCEPT !.pc = "done",
                         !.age = EntryAge(analysisCache, key),
                         !.response = AnalyzeResponse(200, "",
                              MapGet(analysisCache, key).tokens, TRUE, 0)]
          ELSE IF analyzerInstance # 0
          THEN [@ EXCEPT !.pc = "parse", !.age = EntryAge(analysisCache, key)]
          ELSE [@ EXCEPT !.pc = "init", !.constructed = TRUE,
                         !.age = EntryAge(analysisCache, key)]]
    /\ UNCHANGED <<now, ticks, uiVars, clientVars, translateVars, analysisCache,
                   analysisLastCleanupTime, analyzerInstance, analyzeLimiter>>

\* lines 86-93 and 247-253: the construction this request started settles;
\* the instance it built (named by the request) is stored, a failure is
\* answered by the catch block
AnalyzeInitSettles(r, ok) ==
    /\ analyses[r].pc = "init"
    /\ analyzerInstance' = IF ok THEN r ELSE analyzerInstance
    /\ analyses' = [analyses EXCEPT ![r] =
          IF ok THEN [@ EXCEPT !.pc = "parse"]
          ELSE [@ EXCEPT !.pc = "done",
                         !.response = AnalyzeResponse(500, "", 0, FALSE, 0)]]
    /\ UNCHANGED <<now, ticks, uiVars, clientVars, translateVars, analysisCache,
                   analysisLastCleanupTime, analyzeLimiter>>

\* lines 223-253: parse settles; the tokens of request r are r
AnalyzeParseSettles(r, ok) ==
    LET set == MapSet(analysisCache,
                   [key |-> analyses[r].text, tokens |-> r, timestamp |-> now])
        cleaned == cleanupCache(set, analysisLastCleanupTime, now,
                                ANALYSIS_CACHE_TTL, ANALYSIS_MAX_CACHE_SIZE,
                                ANALYSIS_CLEANUP_INTERVAL)
    IN
    /\ analyses[r].pc = "parse"
    /\ IF ok
       THEN /\ analysisCache' = cleaned.cache
            /\ analysisLastCleanupTime' = cleaned.last
            /\ analyses' = [analyses EXCEPT ![r].pc = "done",
                               ![r].sizeAfterSet = Len(set),
                               ![r].response = AnalyzeResponse(200, "", r, FALSE, 0)]
       ELSE /\ analyses' = [analyses EXCEPT ![r].pc = "done",
                               ![r].response = AnalyzeResponse(500, "", 0, FALSE, 0)]
            /\ UNCHANGED <<analysisCache, analysisLastCleanupTime>>
    /\ UNCHANGED <<now, ticks, uiVars, clientVars, translateVars, analyzerInstance,
                   analyzeLimiter>>

NextAnalyze ==
    \/ \E ip \in ClientIPs, text \in AnalyzeTexts : AnalyzeStart(ip, text)
    \/ \E r \in 1..Len(analyses) : AnalyzeBody(r)
    \/ \E r \in 1..Len(analyses), ok \in BOOLEAN : AnalyzeInitSettles(r, ok)
    \/ \E r \in 1..Len(analyses), ok \in BOOLEAN : AnalyzeParseSettles(r, ok)

(***************************************************************************)
(* The system: the client layer and the two routes are separate modules    *)
(* with no shared state; a behaviour starts with empty caches or with one  *)
(* cache left full by earlier requests.                                    *)
(***************************************************************************)
\* a translation cache left by n earlier requests, all stored at time t
WarmTranslationCache(n, t) ==
    [i \in 1..n |->
        [key |-> WarmCache(n, t)[i].key, translatedText |-> 0,
         romanization |-> "", timestamp |-> t]]

\* an analysis cache left by n earlier requests, all stored at time t
WarmAnalysisCache(n, t) ==
    [i \in 1..n |->
        [key |-> WarmCache(n, t)[i].key[3], tokens |-> 0, timestamp |-> t]]

\* the instants the entries of a warm cache were stored at: just now, or
\* longer ago than the time to live
WarmTimes(ttl) == {StartTime, StartTime - ttl - 1}

ColdClient ==
    /\ clientCache = <<>>
    /\ pendingRequests = <<>>
    /\ promises = <<>>
    /\ calls = <<>>
    /\ microtasks = <<>>

ColdTranslate ==
    /\ translationCache = <<>>
    /\ lastCleanupTime = 0
    /\ kuroshiroInstance = 0
    /\ kuroshiroInitPromise = 0
    /\ kuroshiroInits = <<>>
    /\ translateLimiter = NewLimiter
    /\ posts = <<>>

ColdAnalyze ==
    /\ analysisCache = <<>>
    /\ analysisLastCleanupTime = 0
    /\ analyzerInstance = 0
    /\ analyzeLimiter = NewLimiter
    /\ analyses = <<>>

WarmClient ==
    /\ \E t \in WarmTimes(CLIENT_CACHE_TTL) :
          clientCache = WarmCache(MAX_CLIENT_CACHE_SIZE, t)
    /\ pendingRequests = <<>>
    /\ promises = <<>>
    /\ calls = <<>>
    /\ microtasks = <<>>

\* the cleanup that followed the last put ran the sweep, at that time
WarmTranslate ==
    /\ \E t \in WarmTimes(CACHE_TTL) :
          /\ translationCache = WarmTranslationCache(MAX_CACHE_SIZE, t)
          /\ lastCleanupTime = t
    /\ kuroshiroInstance = 0
    /\ kuroshiroInitPromise = 0
    /\ kuroshiroInits = <<>>
    /\ translateLimiter = NewLimiter
    /\ posts = <<>>

WarmAnalyze ==
    /\ \E t \in WarmTimes(ANALYSIS_CACHE_TTL) :
          /\ analysisCache = WarmAnalysisCache(ANALYSIS_MAX_CACHE_SIZE, t)
          /\ analysisLastCleanupTime = t
    /\ analyzerInstance = 0
    /\ analyzeLimiter = NewLimiter
    /\ analyses = <<>>

Init ==
    /\ now = StartTime
    /\ ticks = 0
    /\ voice = VoiceInitial
    /\ stats = StatsInitial
    /\ \/ ColdClient /\ ColdTranslate /\ ColdAnalyze
       \/ WarmClient /\ ColdTranslate /\ ColdAnalyze
       \/ ColdClient /\ WarmTranslate /\ ColdAnalyze
       \/ ColdClient /\ ColdTranslate /\ WarmAnalyze

\* time passes on the server
ServerTick == \E d \in ServerDeltas : Tick(d)

Next == NextClient \/ NextTranslate \/ NextAnalyze \/ ServerTick

Spec == Init /\ [][Next]_vars

\* the client layer alone: the routes are never called
InitClient ==
    /\ now = StartTime
    /\ ticks = 0
    /\ voice = VoiceInitial
    /\ stats = StatsInitial
    /\ ColdClient \/ WarmClient
    /\ ColdTranslate
    /\ ColdAnalyze

SpecClient == InitClient /\ [][NextClient]_vars

\* the client layer alone, with callers that may stop waiting
SpecAbandon == InitClient /\ [][NextAbandon]_vars

(***************************************************************************)
(* The routes started with caches of every shape earlier requests can      *)
(* leave: any number of entries up to the maximum, stored in any order of  *)
(* age, with the TTL sweep due or not.                                     *)
(***************************************************************************)
\* the instants an entry can have been stored at: longer ago than the time
\* to live, exactly that long ago, just now
StoredTimes(ttl) == {StartTime - ttl - 1, StartTime - ttl, StartTime}

\* the instants of the last TTL sweep: one that makes the next sweep due,
\* one that does not
SweepTimes(ttl) == {StartTime - ttl - 1, StartTime - 1}

\* the assignments of a storing time to each of the first n entries, for
\* every n up to max
CacheShapes(ttl, max) ==
    UNION {[1..n -> StoredTimes(ttl)] : n \in 0..max}

\* the text of the i-th entry: one that a request of the behaviour can ask
\* for again, then texts of earlier requests
StoredText(i) ==
    IF i = 1 THEN <<"a">> ELSE CHOOSE w \in WarmTexts : w[2] = ToString(i - 1)

StoredTranslationCache(shape) ==
    [i \in DOMAIN shape |->
        [key |-> getCacheKey(StoredText(i), "en", "ja"), translatedText |-> 0,
         romanization |-> "", timestamp |-> shape[i]]]

StoredAnalysisCache(shape) ==
    [i \in DOMAIN shape |->
        [key |-> StoredText(i), tokens |-> 0, timestamp |-> shape[i]]]

StoredTranslate ==
    /\ \E shape \in CacheShapes(CACHE_TTL, MAX_CACHE_SIZE) :
          translationCache = StoredTranslationCache(shape)
    /\ lastCleanupTime \in SweepTimes(CACHE_TTL)
    /\ kuroshiroInstance = 0
    /\ kuroshiroInitPromise = 0
    /\ kuroshiroInits = <<>>
    /\ translateLimiter = NewLimiter
    /\ posts = <<>>

StoredAnalyze ==
    /\ \E shape \in CacheShapes(ANALYSIS_CACHE_TTL, ANALYSIS_MAX_CACHE_SIZE) :
          analysisCache = StoredAnalysisCache(shape)
    /\ analysisLastCleanupTime \in SweepTimes(ANALYSIS_CACHE_TTL)
    /\ analyzerInstance = 0
    /\ analyzeLimiter = NewLimiter
    /\ analyses = <<>>

InitCleanup ==
    /\ now = StartTime
    /\ ticks = 0
    /\ voice = VoiceInitial
    /\ stats = StatsInitial
    /\ ColdClient
    /\ \/ StoredTranslate /\ ColdAnalyze
       \/ ColdTranslate /\ StoredAnalyze

SpecCleanup == InitCleanup /\ [][NextTranslate \/ NextAnalyze]_vars

(***************************************************************************)
(* The length limit: the same handlers, called with texts at and just      *)
(* above MAX_TEXT_LENGTH.                                                  *)
(***************************************************************************)
\* n times the character a
LongText(n) == [i \in 1..n |-> "a"]

\* a text of exactly the maximum length, one a character longer, and one
\* that is longer only by a trailing space
LongTexts ==
    {LongText(MAX_TEXT_LENGTH),
     LongText(MAX_TEXT_LENGTH + 1),
     Append(LongText(MAX_TEXT_LENGTH), " ")}

InitLength ==
    /\ now = StartTime
    /\ ticks = 0
    /\ voice = VoiceInitial
    /\ stats = StatsInitial
    /\ ColdClient
    /\ ColdTranslate
    /\ ColdAnalyze

NextLength ==
    \/ \E text \in LongTexts, onLine \in BOOLEAN :
          \/ TranslateOffline(text, "en", "ja", onLine)
          \/ TranslateInvalid(text, "en", "ja", onLine)
          \/ TranslateCacheHit(text, "en", "ja", onLine)
          \/ TranslateJoin(text, "en", "ja", onLine)
          \/ TranslateDispatch(text, "en", "ja", onLine)
    \/ \E p \in 1..Len(promises) : \E r \in FetchResults : FetchSettles(p, r)
    \/ \E p \in 1..Len(promises) :
          \E d \in JsonResults(TRUE) \cup JsonResults(FALSE) : JsonSettles(p, d)
    \/ OriginatorResume
    \/ ResolveThenableJob
    \/ JoinerReaction
    \/ \E ip \in ClientIPs, text \in LongTexts :
          PostStart(ip, [text |-> text, source |-> "en", target |-> "ja"])
    \/ \E r \in 1..Len(posts), apiKey \in BOOLEAN : PostBody(r, apiKey)
    \/ \E r \in 1..Len(posts), g \in GoogleResults : PostFetchSettles(r, g)
    \/ \E r \in 1..Len(posts), parsed \in BOOLEAN : PostJsonSettles(r, parsed)
    \/ \E i \in 1..Len(kuroshiroInits), ok \in BOOLEAN : KuroshiroInitSettles(i, ok)
    \/ \E r \in 1..Len(posts) : PostKuroshiroSettles(r)
    \/ \E r \in 1..Len(posts), romaji \in ConvertResults : PostConvertSettles(r, romaji)
    \/ \E ip \in ClientIPs, text \in LongTexts : AnalyzeStart(ip, text)
    \/ \E r \in 1..Len(analyses) : AnalyzeBody(r)
    \/ \E r \in 1..Len(analyses), ok \in BOOLEAN : AnalyzeInitSettles(r, ok)
    \/ \E r \in 1..Len(analyses), ok \in BOOLEAN : AnalyzeParseSettles(r, ok)

SpecLength == InitLength /\ [][NextLength]_vars

(***************************************************************************)
(* Admission: the routes started with the limiter in the states earlier    *)
(* requests can leave it in.                                               *)
(***************************************************************************)
\* Date.now() when a behaviour of this specification starts: the earlier
\* requests were checked after StartTime, so that the daily window they
\* opened has not elapsed
AdmissionStart == StartTime + PER_CLIENT_WINDOW + 1000

\* when the earlier requests were checked: longer ago than the windows of
\* the per-client and global tiers, or within them
EarlierTimes == {StartTime, StartTime + PER_CLIENT_WINDOW}

\* the earlier checks, in the order they were made
EarlierChecks ==
    {s \in UNION {[1..n -> [ip : ClientIPs, t : EarlierTimes]] : n \in 0..DAILY_LIMIT} :
        \A i \in 1..(Len(s) - 1) : s[i].t <= s[i + 1].t}

RECURSIVE LimiterAfter(_)
\* the limiter after the checks of s
LimiterAfter(s) ==
    IF s = <<>> THEN NewLimiter
    ELSE RateLimitCheck(LimiterAfter(SubSeq(s, 1, Len(s) - 1)),
                        s[Len(s)].ip, s[Len(s)].t).state

EarlierLimiters == {LimiterAfter(s) : s \in EarlierChecks}

CheckedTranslate ==
    /\ translationCache = <<>>
    /\ lastCleanupTime = 0
    /\ kuroshiroInstance = 0
    /\ kuroshiroInitPromise = 0
    /\ kuroshiroInits = <<>>
    /\ translateLimiter \in EarlierLimiters
    /\ posts = <<>>

CheckedAnalyze ==
    /\ analysisCache = <<>>
    /\ analysisLastCleanupTime = 0
    /\ analyzerInstance = 0
    /\ analyzeLimiter \in EarlierLimiters
    /\ analyses = <<>>

InitAdmission ==
    /\ now = AdmissionStart
    /\ ticks = 0
    /\ voice = VoiceInitial
    /\ stats = StatsInitial
    /\ ColdClient
    /\ \/ CheckedTranslate /\ ColdAnalyze
       \/ ColdTranslate /\ CheckedAnalyze

\* how far the clock may jump: within every window, or past the windows of
\* the per-client and global tiers
AdmissionDeltas == {1000, PER_CLIENT_WINDOW}

NextAdmission ==
    \/ \E ip \in ClientIPs :
          PostStart(ip, [text |-> <<"a">>, source |-> "en", target |-> "ja"])
    \/ \E r \in 1..Len(posts), apiKey \in BOOLEAN : PostBody(r, apiKey)
    \/ \E r \in 1..Len(posts), g \in GoogleResults : PostFetchSettles(r, g)
    \/ \E r \in 1..Len(posts), parsed \in BOOLEAN : PostJsonSettles(r, parsed)
    \/ \E i \in 1..Len(kuroshiroInits), ok \in BOOLEAN : KuroshiroInitSettles(i, ok)
    \/ \E r \in 1..Len(posts) : PostKuroshiroSettles(r)
    \/ \E r \in 1..Len(posts), romaji \in ConvertResults : PostConvertSettles(r, romaji)
    \/ \E ip \in ClientIPs : AnalyzeStart(ip, <<"a">>)
    \/ \E r \in 1..Len(analyses) : AnalyzeBody(r)
    \/ \E r \in 1..Len(analyses), ok \in BOOLEAN : AnalyzeInitSettles(r, ok)
    \/ \E r \in 1..Len(analyses), ok \in BOOLEAN : AnalyzeParseSettles(r, ok)
    \/ \E d \in AdmissionDeltas : Tick(d)

SpecAdmission == InitAdmission /\ [][NextAdmission]_vars

(***************************************************************************)
(* Cache keys: the same handlers, called with texts that differ only in    *)
(* leading or trailing whitespace, and with one that differs otherwise.    *)
(***************************************************************************)
KeyTexts == {<<"a">>, <<" ", "a">>, <<"a", " ">>, <<"b">>}

\* the text and the operation parameters of a request
KeyRequests ==
    {[text |-> text, source |-> "en", target |-> "ja"] : text \in KeyTexts}
        \cup {[text |-> <<"a">>, source |-> "ja", target |-> "en"]}

InitKeys ==
    /\ now = StartTime
    /\ ticks = 0
    /\ voice = VoiceInitial
    /\ stats = StatsInitial
    /\ ColdClient
    /\ ColdTranslate
    /\ ColdAnalyze

NextKeys ==
    \/ \E r \in KeyRequests, onLine \in BOOLEAN :
          \/ TranslateOffline(r.text, r.source, r.target, onLine)
          \/ TranslateCacheHit(r.text, r.source, r.target, onLine)
          \/ TranslateJoin(r.text, r.source, r.target, onLine)
          \/ TranslateDispatch(r.text, r.source, r.target, onLine)
    \/ \E p \in 1..Len(promises) : \E r \in FetchResults : FetchSettles(p, r)
    \/ \E p \in 1..Len(promises) :
          \E d \in JsonResults(TRUE) \cup JsonResults(FALSE) : JsonSettles(p, d)
    \/ OriginatorResume
    \/ ResolveThenableJob
    \/ JoinerReaction
    \/ \E ip \in ClientIPs, body \in KeyRequests : PostStart(ip, body)
    \/ \E r \in 1..Len(posts), apiKey \in BOOLEAN : PostBody(r, apiKey)
    \/ \E r \in 1..Len(posts), g \in GoogleResults : PostFetchSettles(r, g)
    \/ \E r \in 1..Len(posts), parsed \in BOOLEAN : PostJsonSettles(r, parsed)
    \/ \E i \in 1..Len(kuroshiroInits), ok \in BOOLEAN : KuroshiroInitSettles(i, ok)
    \/ \E r \in 1..Len(posts) : PostKuroshiroSettles(r)
    \/ \E r \in 1..Len(posts), romaji \in ConvertResults : PostConvertSettles(r, romaji)
    \/ \E ip \in ClientIPs, text \in KeyTexts : AnalyzeStart(ip, text)
    \/ \E r \in 1..Len(analyses) : AnalyzeBody(r)
    \/ \E r \in 1..Len(analyses), ok \in BOOLEAN : AnalyzeInitSettles(r, ok)
    \/ \E r \in 1..Len(analyses), ok \in BOOLEAN : AnalyzeParseSettles(r, ok)

SpecKeys == InitKeys /\ [][NextKeys]_vars

(***************************************************************************)
(* The translate route with a provider that fails in every way.            *)
(***************************************************************************)
\* what the provider call settles with: GoogleResults and the statuses the
\* handler tells apart from them
ProviderResults ==
    GoogleResults \cup
        {[kind |-> "response", status |-> 401, message |-> <<>>],
         [kind |-> "response", status |-> 404, message |-> <<>>]}

InitFailures ==
    /\ now = StartTime
    /\ ticks = 0
    /\ voice = VoiceInitial
    /\ stats = StatsInitial
    /\ ColdClient
    /\ ColdTranslate
    /\ ColdAnalyze

NextFailures ==
    \/ \E ip \in ClientIPs, body \in TranslateBodies : PostStart(ip, body)
    \/ \E r \in 1..Len(posts), apiKey \in BOOLEAN : PostBody(r, apiKey)
    \/ \E r \in 1..Len(posts), g \in ProviderResults : PostFetchSettles(r, g)
    \/ \E r \in 1..Len(posts), parsed \in BOOLEAN : PostJsonSettles(r, parsed)
    \/ \E i \in 1..Len(kuroshiroInits), ok \in BOOLEAN : KuroshiroInitSettles(i, ok)
    \/ \E r \in 1..Len(posts) : PostKuroshiroSettles(r)
    \/ \E r \in 1..Len(posts), romaji \in ConvertResults : PostConvertSettles(r, romaji)

SpecFailures == InitFailures /\ [][NextFailures]_vars

(***************************************************************************)
(* The puts of the two routes around the instants of the TTL sweep: the    *)
(* caches hold stale and fresh entries, the last sweep is longer ago than  *)
(* the interval, exactly the interval ago or more recent, and time passes  *)
(* between the puts.                                                       *)
(***************************************************************************)
\* the texts a request may store a result for
PutTexts == {<<"a">>, <<"b">>}

\* the instants of the last TTL sweep
SweepInstants(interval) ==
    {StartTime - interval - 1, StartTime - interval, StartTime - 1}

\* each of the first n entries stale or fresh, for every n up to max
SweepShapes(ttl, max) ==
    UNION {[1..n -> {StartTime - ttl - 1, StartTime}] : n \in 0..max}

\* the steps of the clock: within the interval, the interval
SweepDeltas == {1, CLEANUP_INTERVAL}

\* requests that store: a text held by the stored caches and another one
SweepBodies ==
    {[text |-> text, source |-> "en", target |-> "ja"] : text \in PutTexts}

InitSweep ==
    /\ now = StartTime
    /\ ticks = 0
    /\ voice = VoiceInitial
    /\ stats = StatsInitial
    /\ ColdClient
    /\ \/ /\ \E shape \in SweepShapes(CACHE_TTL, MAX_CACHE_SIZE) :
                translationCache = StoredTranslationCache(shape)
          /\ lastCleanupTime \in SweepInstants(CLEANUP_INTERVAL)
          /\ kuroshiroInstance = 1
          /\ kuroshiroInitPromise = 0
          /\ kuroshiroInits = <<"fulfilled">>
          /\ translateLimiter = NewLimiter
          /\ posts = <<>>
          /\ ColdAnalyze
       \/ /\ ColdTranslate
          /\ \E shape \in SweepShapes(ANALYSIS_CACHE_TTL, ANALYSIS_MAX_CACHE_SIZE) :
                analysisCache = StoredAnalysisCache(shape)
          /\ analysisLastCleanupTime \in SweepInstants(ANALYSIS_CLEANUP_INTERVAL)
          /\ analyzerInstance = 1
          /\ analyzeLimiter = NewLimiter
          /\ analyses = <<>>

NextSweep ==
    \/ \E ip \in ClientIPs, body \in SweepBodies : PostStart(ip, body)
    \/ \E r \in 1..Len(posts) : PostBody(r, TRUE)
    \/ \E r \in 1..Len(posts) :
          PostFetchSettles(r, [kind |-> "response", status |-> 200, message |-> <<>>])
    \/ \E r \in 1..Len(posts) : PostJsonSettles(r, TRUE)
    \/ \E r \in 1..Len(posts), romaji \in ConvertResults : PostConvertSettles(r, romaji)
    \/ \E ip \in ClientIPs, text \in PutTexts : AnalyzeStart(ip, text)
    \/ \E r \in 1..Len(analyses) : AnalyzeBody(r)
    \/ \E r \in 1..Len(analyses) : AnalyzeParseSettles(r, TRUE)
    \/ \E d \in SweepDeltas : Tick(d)

SpecSweep == InitSweep /\ [][NextSweep]_vars

(***************************************************************************)
(* The hook alone, and the stats store alone.                              *)
(***************************************************************************)
InitWidgets ==
    /\ now = StartTime
    /\ ticks = 0
    /\ voice = VoiceInitial
    /\ stats = StatsInitial
    /\ ColdClient
    /\ ColdTranslate
    /\ ColdAnalyze

SpecVoice == InitWidgets /\ [][NextVoice]_vars

SpecStats == InitWidgets /\ [][NextStats]_vars

(***************************************************************************)
(* Properties of the client layer.                                         *)
(***************************************************************************)
ClientKeys == {promises[p].key : p \in 1..Len(promises)}

\* the invocations that passed the offline check and the validation
Served == {c \in 1..Len(calls) : calls[c].path \in {"hit", "join", "dispatch"}}

\* C1: for every key at most one external call is in flight, and the call
\* in flight is the one pendingRequests holds for the key; so a call is
\* dispatched only when no PendingCall exists for its key.
C1_OneCallInFlightPerKey ==
    \A k \in ClientKeys :
        /\ Cardinality(InFlight(k)) <= 1
        /\ \A p \in InFlight(k) :
              MapHas(pendingRequests, k) /\ MapGet(pendingRequests, k).promise = p
        /\ \A p \in 1..Len(promises) :
              promises[p].key = k => calls[promises[p].by].live = {}

\* a second invocation arrived for a key while its call was in flight
C1_Witness ==
    \E c \in Served : \E p \in calls[c].live :
        /\ promises[p].io # "done"
        /\ promises[p].by # c

\* C2: every invocation that arrives for a key while an external call for
\* that key is in flight starts no call of its own and is joined to that
\* one call; all invocations joined to a call, and the one that dispatched
\* it, receive that call's outcome (once the job queue has drained, all of
\* them have it).
C2_CoalescedCallersShareOneCall ==
    /\ \A c \in Served :
          calls[c].live # {} =>
              /\ calls[c].path = "join"
              /\ calls[c].promise \in calls[c].live
              /\ \A p \in 1..Len(promises) : promises[p].by # c
    /\ \A c \in Served :
          calls[c].path \in {"join", "dispatch"} =>
              LET p == calls[c].promise IN
              /\ promises[p].key = calls[c].key
              /\ calls[c].outcome \in {Pending, promises[p].outcome}
              /\ (IsSettled(p) /\ microtasks = <<>>) =>
                     calls[c].outcome = promises[p].outcome

\* two invocations share one settled call and both hold its outcome
C2_Witness ==
    \E c1, c2 \in Served :
        /\ c1 # c2
        /\ calls[c1].promise = calls[c2].promise
        /\ calls[c2].live # {}
        /\ calls[c1].outcome.state = "fulfilled"
        /\ calls[c2].outcome = calls[c1].outcome
        /\ Len(promises) = 1

\* C4: a key is in pendingRequests exactly while a call dispatched for it
\* has not yet delivered its outcome to the invocation that dispatched it,
\* and an invocation that arrives for a key after a call for that key has
\* failed does not receive that old failure.
C4_PendingOnlyUntilDelivery ==
    /\ MapKeys(pendingRequests) =
          {promises[p].key : p \in {q \in 1..Len(promises) :
                                      calls[promises[q].by].outcome.state = "pending"}}
    /\ \A c \in Served : \A p \in 1..Len(promises) :
          (/\ promises[p].by < c
           /\ promises[p].key = calls[c].key
           /\ p \notin calls[c].live
           /\ promises[p].ext = "failed") => calls[c].promise # p

\* C5: no invocation joins a call whose promise has already settled.
C5_NeverJoinsSettledCall ==
    \A c \in Served :
        calls[c].path = "join" => calls[c].promise \in calls[c].live

\* C6: when the external call fails, its promise is rejected, every
\* invocation joined to it receives that rejection, exactly once, none
\* receives a success, and every external call was started by exactly one
\* translate invocation (none is started by the layer itself).
C6_FailureSharedNoRetry ==
    /\ \A p \in 1..Len(promises) :
          promises[p].ext = "failed" =>
              /\ promises[p].outcome.state = "rejected"
              /\ \A c \in Served :
                    calls[c].promise = p =>
                        /\ calls[c].outcome \in {Pending, promises[p].outcome}
                        /\ calls[c].settles <= 1
                        /\ microtasks = <<>> =>
                               (calls[c].outcome = promises[p].outcome
                                /\ calls[c].settles = 1)
    /\ \A p \in 1..Len(promises) :
          /\ calls[promises[p].by].path = "dispatch"
          /\ calls[promises[p].by].promise = p
    /\ Len(promises) = Cardinality({c \in Served : calls[c].path = "dispatch"})

\* a failed call was shared by two invocations and both hold its error
C6_Witness ==
    \E c1, c2 \in Served :
        /\ c1 # c2
        /\ calls[c1].promise = calls[c2].promise
        /\ calls[c1].path = "dispatch"
        /\ calls[c2].path = "join"
        /\ calls[c1].outcome.state = "rejected"
        /\ calls[c2].outcome = calls[c1].outcome

\* C10: after the put and the cleanupClientCache that follows it, the
\* client cache holds at most MAX_CLIENT_CACHE_SIZE entries.
C10_ClientCacheBounded == Len(clientCache) <= MAX_CLIENT_CACHE_SIZE

(***************************************************************************)
(* Properties of the routes and of the three caches.                       *)
(***************************************************************************)
\* C3: no two requests to POST /api/translate for the same key are waiting
\* for the translation provider at the same time.
C3_OneProviderCallPerKey ==
    \A r1, r2 \in 1..Len(posts) :
        (r1 # r2 /\ posts[r1].pc = "fetch" /\ posts[r2].pc = "fetch")
            => PostKey(r1) # PostKey(r2)

\* C7: a step changes a cache only when it completes a request whose
\* external operation succeeded, and then the cache holds that request's
\* result under its key; a step that ends a request in any error leaves
\* the three caches as they were.
C7_FailuresNeverCached ==
    [][/\ clientCache' # clientCache =>
             \E p \in 1..Len(promises) :
                 /\ promises[p].io = "json"
                 /\ promises[p].ok
                 /\ promises'[p].ext = "ok"
                 /\ MapGet(clientCache', promises[p].key) =
                        [key |-> promises[p].key, response |-> ResponseOf(p),
                         timestamp |-> now]
       /\ translationCache' # translationCache =>
             \E r \in 1..Len(posts) :
                 /\ posts[r].fetched
                 /\ posts[r].pc \in {"json", "kuroshiro", "convert"}
                 /\ posts'[r].pc = "done"
                 /\ posts'[r].response.status = 200
                 /\ ~posts'[r].response.cached
                 /\ MapGet(translationCache', PostKey(r)).translatedText = r
                 /\ MapGet(translationCache', PostKey(r)).timestamp = now
       /\ analysisCache' # analysisCache =>
             \E r \in 1..Len(analyses) :
                 /\ analyses[r].pc = "parse"
                 /\ analyses'[r].pc = "done"
                 /\ analyses'[r].response.status = 200
                 /\ ~analyses'[r].response.cached
                 /\ MapGet(analysisCache', analyses[r].text).tokens = r
                 /\ MapGet(analysisCache', analyses[r].text).timestamp = now
      ]_vars

\* an external call of the client ended in an error response whose body
\* parsed, and the client cache has no entry for its key
C7_Witness ==
    \E p \in 1..Len(promises) :
        /\ promises[p].io = "done"
        /\ promises[p].ext = "failed"
        /\ promises[p].httpStatus = 429
        /\ promises[p].outcome.code = "RATE_LIMIT"
        /\ ~MapHas(clientCache, promises[p].key)

\* what the records of the requests say about their lookups: an answer
\* from a cache had found an entry younger than the time to live, and a
\* request that found an older entry went on to the external call
LookupsHonourTTL ==
    /\ \A c \in Served :
          /\ calls[c].path = "hit" =>
                (calls[c].age >= 0 /\ calls[c].age < CLIENT_CACHE_TTL)
          /\ calls[c].age >= CLIENT_CACHE_TTL =>
                /\ calls[c].path \in {"join", "dispatch"}
                /\ calls[c].promise \in 1..Len(promises)
    /\ \A r \in 1..Len(posts) :
          /\ posts[r].response.cached =>
                (posts[r].age >= 0 /\ posts[r].age < CACHE_TTL)
          /\ posts[r].age >= CACHE_TTL =>
                /\ ~posts[r].response.cached
                /\ posts[r].fetched \/ posts[r].response.code = "AUTH_ERROR"
    /\ \A r \in 1..Len(analyses) :
          /\ analyses[r].response.cached =>
                (analyses[r].age >= 0 /\ analyses[r].age < ANALYSIS_CACHE_TTL)
          /\ analyses[r].age >= ANALYSIS_CACHE_TTL =>
                /\ ~analyses[r].response.cached
                /\ analyses[r].pc \in {"init", "parse"}
                      \/ analyses[r].response.status \in {200, 500}

\* a step in which an external call succeeds leaves that call's result,
\* stamped with the present time, under the request's key
SuccessOverwrites ==
    /\ \A p \in 1..Len(promises) :
          (promises[p].io = "json" /\ promises'[p].ext = "ok") =>
              MapGet(clientCache', promises[p].key) =
                  [key |-> promises[p].key, response |-> ResponseOf(p),
                   timestamp |-> now]
    /\ \A r \in 1..Len(posts) :
          (/\ posts[r].pc # "done"
           /\ posts'[r].pc = "done"
           /\ posts'[r].response.status = 200
           /\ ~posts'[r].response.cached) =>
              /\ MapGet(translationCache', PostKey(r)).translatedText = r
              /\ MapGet(translationCache', PostKey(r)).timestamp = now
    /\ \A r \in 1..Len(analyses) :
          (/\ analyses[r].pc # "done"
           /\ analyses'[r].pc = "done"
           /\ analyses'[r].response.status = 200
           /\ ~analyses'[r].response.cached) =>
              /\ MapGet(analysisCache', analyses[r].text).tokens = r
              /\ MapGet(analysisCache', analyses[r].text).timestamp = now

\* C8: a request is answered from a cache only when the entry's age at the
\* lookup is below the time to live (30 minutes on the client, 1 hour on
\* the routes); a request that finds an entry of that age or older goes on
\* to the external call, and when that call succeeds its result replaces
\* the entry.
C8_StaleEntryIsMiss == []LookupsHonourTTL /\ [][SuccessOverwrites]_vars

\* an invocation found an entry exactly as old as the time to live, started
\* an external call, and the call's result has replaced the entry
C8_Witness ==
    \E c \in Served :
        /\ calls[c].age = CLIENT_CACHE_TTL
        /\ calls[c].path = "dispatch"
        /\ promises[calls[c].promise].ext = "ok"
        /\ MapGet(clientCache, calls[c].key).response = ResponseOf(calls[c].promise)
        /\ MapGet(clientCache, calls[c].key).timestamp = now

\* C9: whenever no handler is between its put and its cleanupCache (that
\* is, in every state: the two run in one step), each route's cache holds
\* at most its maximum; the put itself made it at most one larger.
C9_ServerCachesBounded ==
    /\ Len(translationCache) <= MAX_CACHE_SIZE
    /\ Len(analysisCache) <= ANALYSIS_MAX_CACHE_SIZE
    /\ \A r \in 1..Len(posts) : posts[r].sizeAfterSet <= MAX_CACHE_SIZE + 1
    /\ \A r \in 1..Len(analyses) :
          analyses[r].sizeAfterSet <= ANALYSIS_MAX_CACHE_SIZE + 1

\* a put took the translation cache over its maximum and the cleanup that
\* followed brought it back
C9_Witness ==
    \E r \in 1..Len(posts) :
        /\ posts[r].sizeAfterSet = MAX_CACHE_SIZE + 1
        /\ MapHas(translationCache, PostKey(r))
        /\ Len(translationCache) <= MAX_CACHE_SIZE

(***************************************************************************)
(* Properties of cleanupCache.                                             *)
(***************************************************************************)
Range(seq) == {seq[i] : i \in 1..Len(seq)}

\* the entries the TTL sweep leaves: all of them when the sweep is not due
AfterSweep(cache, last, t, ttl, interval) ==
    IF t - last > interval
    THEN {e \in Range(cache) : t - e.timestamp <= ttl}
    ELSE Range(cache)

\* what the claim says of one run of cleanupCache on a cache
EvictsOldestToHalf(cache, last, t, ttl, max, interval) ==
    LET after == Range(cleanupCache(cache, last, t, ttl, max, interval).cache)
        swept == AfterSweep(cache, last, t, ttl, interval)
    IN
    /\ after \subseteq Range(cache)
    /\ Cardinality(swept) > max =>
          /\ Cardinality(after) <= max \div 2
          /\ \A e \in swept \ after : \A f \in after : e.timestamp <= f.timestamp
    /\ Cardinality(swept) <= max =>
          \A e \in Range(cache) : t - e.timestamp < ttl => e \in after

\* C11: whatever a request puts into the translation cache or the analysis
\* cache in the present state, the cleanupCache that follows removes only
\* entries of the cache; when more than the maximum remain after the TTL
\* sweep, at most half the maximum are kept and every entry removed is at
\* least as old as every entry kept; otherwise no fresh entry is removed.
C11_EvictsOldestToHalf ==
    /\ \A text \in PutTexts, target \in Language :
          EvictsOldestToHalf(
              MapSet(translationCache,
                     [key |-> getCacheKey(text, "en", target), translatedText |-> 1,
                      romanization |-> "", timestamp |-> now]),
              lastCleanupTime, now, CACHE_TTL, MAX_CACHE_SIZE, CLEANUP_INTERVAL)
    /\ \A text \in PutTexts :
          EvictsOldestToHalf(
              MapSet(analysisCache, [key |-> text, tokens |-> 1, timestamp |-> now]),
              analysisLastCleanupTime, now, ANALYSIS_CACHE_TTL,
              ANALYSIS_MAX_CACHE_SIZE, ANALYSIS_CLEANUP_INTERVAL)

\* a request's put took the analysis cache over its maximum with the sweep
\* not due, and the cleanup kept half the maximum: the request's entry and
\* entries stored before the behaviour started
C11_Witness ==
    \E r \in 1..Len(analyses) :
        /\ analyses[r].sizeAfterSet = ANALYSIS_MAX_CACHE_SIZE + 1
        /\ Len(analysisCache) = ANALYSIS_MAX_CACHE_SIZE \div 2
        /\ MapHas(analysisCache, analyses[r].text)
        /\ \E e \in Range(analysisCache) : e.tokens = 0
        /\ analysisLastCleanupTime = StartTime - 1

(***************************************************************************)
(* Properties of the lazy singletons.                                      *)
(***************************************************************************)
\* C12: in the translate route at most one construction of the analyzer is
\* in progress, while none has failed at most one was ever started, and
\* every request waiting for a construction in progress waits for the one
\* promise kuroshiroInitPromise holds.
C12_OneConstructionInProgress ==
    /\ Cardinality({i \in 1..Len(kuroshiroInits) : kuroshiroInits[i] = "pending"}) <= 1
    /\ (\A i \in 1..Len(kuroshiroInits) : kuroshiroInits[i] # "rejected")
          => Len(kuroshiroInits) <= 1
    /\ \A r \in 1..Len(posts) :
          (posts[r].pc = "kuroshiro" /\ kuroshiroInits[posts[r].awaits] = "pending")
              => posts[r].awaits = kuroshiroInitPromise

\* two requests wait for the same construction in progress
C12_Witness ==
    \E r1, r2 \in 1..Len(posts) :
        /\ r1 # r2
        /\ posts[r1].pc = "kuroshiro"
        /\ posts[r2].pc = "kuroshiro"
        /\ posts[r1].awaits = posts[r2].awaits
        /\ kuroshiroInits[posts[r1].awaits] = "pending"
        /\ Len(kuroshiroInits) = 1

\* C13: in the analyze route no two constructions of the analyzer are in
\* progress at the same time.
C13_AnalyzerConstructedOnce ==
    Cardinality({r \in 1..Len(analyses) : analyses[r].pc = "init"}) <= 1

\* C14: once a route holds an instance, no step replaces it, no step starts
\* a construction, and a request that takes the instance takes that one.
C14_InstanceKeptForever ==
    [][/\ kuroshiroInstance # 0 =>
             /\ kuroshiroInstance' = kuroshiroInstance
             /\ Len(kuroshiroInits') = Len(kuroshiroInits)
             /\ \A r \in 1..Len(posts) :
                   posts'[r].kuroshiro # posts[r].kuroshiro
                       => posts'[r].kuroshiro = kuroshiroInstance
       /\ analyzerInstance # 0 =>
             /\ analyzerInstance' = analyzerInstance
             /\ \A r \in 1..Len(analyses) :
                   analyses'[r].pc = "init" => analyses[r].pc = "init"
      ]_vars

\* C15: kuroshiroInitPromise never holds the promise of a construction that
\* has failed.
C15_FailedInitIsCleared ==
    kuroshiroInitPromise # 0 => kuroshiroInits[kuroshiroInitPromise] # "rejected"

(***************************************************************************)
(* Properties of the order of validation, admission and cache lookup.      *)
(***************************************************************************)
\* C16: a request with invalid input touches neither the cache nor the
\* limiter: on the client it takes no cache or registry path, on the routes
\* it is answered 400 and the limiter has counted only valid requests.
C16_ValidationBeforeAdmission ==
    /\ \A c \in 1..Len(calls) :
          ClientInvalid(calls[c].text) =>
              (calls[c].path \in {"offline", "invalid"} /\ calls[c].promise = 0)
    /\ \A r \in 1..Len(posts) :
          (PostInvalid(posts[r]) /\ posts[r].pc = "done") =>
              (posts[r].response.status = 400
               /\ posts[r].response.code = "INVALID_INPUT")
    /\ translateLimiter.daily.count <=
          Cardinality({r \in 1..Len(posts) : ~PostInvalid(posts[r])})
    /\ \A r \in 1..Len(analyses) :
          (AnalyzeInvalid(analyses[r].text) /\ analyses[r].pc = "done") =>
              analyses[r].response.status = 400
    /\ analyzeLimiter.daily.count <=
          Cardinality({r \in 1..Len(analyses) : ~AnalyzeInvalid(analyses[r].text)})

\* what the record of every denied request shows
DeniedRequestsStopped ==
    /\ \A r \in 1..Len(posts) :
          ~posts[r].admitted =>
              /\ posts[r].pc = "done"
              /\ posts[r].response.status = 429
              /\ posts[r].response.code = "RATE_LIMIT"
              /\ ~posts[r].fetched
              /\ posts[r].awaits = 0
              /\ posts[r].kuroshiro = 0
              /\ posts[r].sizeAfterSet = -1
    /\ \A r \in 1..Len(analyses) :
          ~analyses[r].admitted =>
              /\ analyses[r].pc = "done"
              /\ analyses[r].response.status = 429
              /\ analyses[r].response.code = "RATE_LIMIT"
              /\ ~analyses[r].constructed
              /\ analyses[r].sizeAfterSet = -1

\* the step in which a request is denied
DenialLeavesStores ==
    /\ (Len(posts') > Len(posts) /\ ~posts'[Len(posts')].admitted) =>
          UNCHANGED <<translationCache, lastCleanupTime, kuroshiroInstance,
                      kuroshiroInitPromise, kuroshiroInits>>
    /\ (Len(analyses') > Len(analyses) /\ ~analyses'[Len(analyses')].admitted) =>
          UNCHANGED <<analysisCache, analysisLastCleanupTime, analyzerInstance>>

\* C17: a denied request is answered 429 in the step that denies it and
\* never does anything more: no provider call, no use or construction of
\* the analyzer, no put; the denying step leaves the cache, the cleanup
\* timestamp and the singleton as they were.
C17_DenialShortCircuits == []DeniedRequestsStopped /\ [][DenialLeavesStores]_vars

\* a request was denied and told when to retry
C17_Witness ==
    \E r \in 1..Len(posts) :
        /\ ~posts[r].admitted
        /\ posts[r].response.status = 429
        /\ posts[r].response.retryAfter > 0
        /\ \E q \in 1..Len(posts) : posts[q].admitted /\ posts[q].ip = posts[r].ip

\* C18 as claimed: a request that arrives when its key has a fresh entry is
\* not subject to admission.
C18_HitBeforeAdmission ==
    /\ \A r \in 1..Len(posts) : posts[r].fresh => posts[r].admitted
    /\ \A r \in 1..Len(analyses) : analyses[r].fresh => analyses[r].admitted

\* C18 as amended: every answer from a cache was given to a request that
\* check() had admitted, and made no external call; a request that arrives
\* when its key has a fresh entry and is denied is answered 429; an admitted
\* valid request that finds a fresh entry at its lookup is answered from the
\* cache.
C18_HitAfterAdmission ==
    /\ \A r \in 1..Len(posts) :
          /\ posts[r].response.cached => (posts[r].admitted /\ ~posts[r].fetched)
          /\ (posts[r].fresh /\ ~posts[r].admitted) =>
                (posts[r].pc = "done" /\ posts[r].response.status = 429)
          /\ (posts[r].age >= 0 /\ posts[r].age < CACHE_TTL) =>
                /\ posts[r].response.cached
                /\ posts[r].response.status = 200
                /\ ~posts[r].fetched
    /\ \A r \in 1..Len(analyses) :
          /\ analyses[r].response.cached =>
                (analyses[r].admitted /\ ~analyses[r].constructed)
          /\ (analyses[r].fresh /\ ~analyses[r].admitted) =>
                (analyses[r].pc = "done" /\ analyses[r].response.status = 429)
          /\ (analyses[r].age >= 0 /\ analyses[r].age < ANALYSIS_CACHE_TTL) =>
                /\ analyses[r].response.cached
                /\ analyses[r].response.status = 200

\* a request whose key had a fresh entry on arrival was denied
C18_Witness ==
    \E r \in 1..Len(posts) :
        posts[r].fresh /\ ~posts[r].admitted /\ posts[r].response.status = 429

(***************************************************************************)
(* The scenarios.                                                          *)
(***************************************************************************)
\* C19: of two requests for a key that no other request names, when the
\* first missed, succeeded and had completed before the second started, and
\* the second finds the entry within the time to live, the second is
\* answered from the cache with the result of the first, marked
\* cached: true, without an external call; on the client and on the route.
C19_SecondCallMarkedCached ==
    /\ \A c1, c2 \in 1..Len(calls) :
          (/\ c1 < c2
           /\ calls[c1].key = calls[c2].key
           /\ \A c \in 1..Len(calls) \ {c1, c2} : calls[c].key # calls[c1].key
           /\ calls[c1].path = "dispatch"
           /\ calls[c1].outcome.state = "fulfilled"
           /\ calls[c2].path # "offline"
           /\ calls[c2].open = {}
           /\ calls[c2].age >= 0
           /\ calls[c2].age < CLIENT_CACHE_TTL)
          => /\ calls[c2].path = "hit"
             /\ calls[c2].outcome.state = "fulfilled"
             /\ calls[c2].outcome.response = calls[c1].outcome.response
             /\ MarkedCached(calls[c2].outcome.response)
    /\ \A r1, r2 \in 1..Len(posts) :
          (/\ r1 < r2
           /\ ~PostInvalid(posts[r1])
           /\ PostKey(r1) = PostKey(r2)
           /\ posts[r1].source = posts[r2].source
           /\ posts[r1].target = posts[r2].target
           /\ \A r \in 1..Len(posts) \ {r1, r2} : PostKey(r) # PostKey(r1)
           /\ posts[r1].age = -1
           /\ posts[r1].sizeAfterSet # -1
           /\ posts[r2].fresh
           /\ posts[r2].admitted
           /\ posts[r2].age >= 0
           /\ posts[r2].age < CACHE_TTL)
          => /\ posts[r2].response.cached
             /\ posts[r2].response.translatedText = posts[r1].response.translatedText
             /\ ~posts[r2].fetched

\* C20: a translate request with empty or whitespace-only text ends with
\* INVALID_INPUT and status 400, without an external call, a put or an
\* entry in the registry; on the client and on the route.
C20_EmptyTextIsInvalidInput ==
    /\ \A c \in 1..Len(calls) :
          Len(trim(calls[c].text)) = 0 =>
              /\ calls[c].outcome = Rejected("INVALID_INPUT", 400)
              /\ calls[c].promise = 0
    /\ \A r \in 1..Len(posts) :
          (Len(trim(posts[r].text)) = 0 /\ posts[r].pc = "done") =>
              /\ posts[r].response.status = 400
              /\ posts[r].response.code = "INVALID_INPUT"
              /\ ~posts[r].fetched
              /\ posts[r].sizeAfterSet = -1

\* C21: a text longer than MAX_TEXT_LENGTH, measured before trimming, ends
\* with the validation error and status 400 without an external call, on
\* the client and on both routes; a text of exactly that length is not
\* refused by the validation.
C21_LimitIsExactly5000 ==
    /\ \A c \in 1..Len(calls) :
          /\ Len(calls[c].text) > 5000 =>
                /\ calls[c].outcome = Rejected("INVALID_INPUT", 400)
                /\ calls[c].promise = 0
          /\ (Len(calls[c].text) = 5000 /\ Len(trim(calls[c].text)) > 0) =>
                calls[c].path # "invalid"
    /\ \A r \in 1..Len(posts) :
          /\ (Len(posts[r].text) > 5000 /\ posts[r].pc = "done") =>
                /\ posts[r].response.status = 400
                /\ posts[r].response.code = "INVALID_INPUT"
                /\ ~posts[r].fetched
          /\ (Len(posts[r].text) = 5000 /\ Len(trim(posts[r].text)) > 0
                /\ posts[r].source \in Language /\ posts[r].target \in Language) =>
                ~(posts[r].response.status = 400)
    /\ \A r \in 1..Len(analyses) :
          /\ (Len(analyses[r].text) > 5000 /\ analyses[r].pc = "done") =>
                /\ analyses[r].response.status = 400
                /\ ~analyses[r].constructed
          /\ (Len(analyses[r].text) = 5000 /\ Len(trim(analyses[r].text)) > 0) =>
                ~(analyses[r].response.status = 400)

(***************************************************************************)
(* Properties of the error responses.                                      *)
(***************************************************************************)
\* part_001 lines 139-145
ERROR_CODES == {"INVALID_INPUT", "RATE_LIMIT", "API_ERROR", "AUTH_ERROR", "NETWORK_ERROR"}

\* the fields of the JSON body of a response of POST /api/translate: every
\* error body is { code, message, status }, the denial adds retryAfter
\* (part_001 172-178), a hit is { translatedText, romanization, cached }
\* and a miss { translatedText, detectedSourceLanguage, romanization }
TranslateBodyFields(response) ==
    IF response.status = 0 THEN {}
    ELSE IF response.code # ""
    THEN {"code", "message", "status"}
            \cup (IF response.retryAfter > 0 THEN {"retryAfter"} ELSE {})
    ELSE IF response.cached
    THEN {"translatedText", "romanization", "cached"}
    ELSE {"translatedText", "detectedSourceLanguage", "romanization"}

\* the fields of the JSON body of a response of POST /api/analyze-text: the
\* denial is { error, code, retryAfter } (part_002 176-183), every other
\* error body is { error } (192-202, 249-252), a hit is { tokens, cached }
\* and a miss { tokens }
AnalyzeBodyFields(response) ==
    IF response.status = 0 THEN {}
    ELSE IF response.status = 429 THEN {"error", "code", "retryAfter"}
    ELSE IF response.status >= 400 THEN {"error"}
    ELSE IF response.cached THEN {"tokens", "cached"}
    ELSE {"tokens"}

\* C22: the body of every response of either route that reports a denial or
\* a failure has the fields code, message and status, its code is one of
\* ERROR_CODES, and the body of a denial by the limiter has retryAfter.
C22_StructuredErrorBody ==
    /\ \A r \in 1..Len(posts) :
          posts[r].response.status >= 400 =>
              /\ {"code", "message", "status"} \subseteq TranslateBodyFields(posts[r].response)
              /\ posts[r].response.code \in ERROR_CODES
              /\ ~posts[r].admitted =>
                    "retryAfter" \in TranslateBodyFields(posts[r].response)
    /\ \A r \in 1..Len(analyses) :
          analyses[r].response.status >= 400 =>
              /\ {"code", "message", "status"} \subseteq AnalyzeBodyFields(analyses[r].response)
              /\ analyses[r].response.code \in ERROR_CODES
              /\ ~analyses[r].admitted =>
                    "retryAfter" \in AnalyzeBodyFields(analyses[r].response)

(***************************************************************************)
(* Properties of admission.                                                *)
(***************************************************************************)
\* the count of a tier at time t, its window rolled when it has elapsed
CountAt(tier, window, t) == IF t - tier.start >= window THEN 0 ELSE tier.count

\* request q of a route arrives in this step under limiter state lim: when
\* its client is at the per-client ceiling it is answered 429 with a retry
\* hint, when no tier is at its ceiling it is admitted and goes on
ArrivalHonoursClientTier(lim, q, NoAnswer) ==
    /\ CountAt(lim.client[q.ip], PER_CLIENT_WINDOW, now) >= PER_CLIENT_LIMIT =>
          /\ ~q.admitted
          /\ q.pc = "done"
          /\ q.response.status = 429
          /\ q.response.code = "RATE_LIMIT"
          /\ q.response.retryAfter > 0
    /\ (/\ CountAt(lim.client[q.ip], PER_CLIENT_WINDOW, now) < PER_CLIENT_LIMIT
        /\ CountAt(lim.global, GLOBAL_WINDOW, now) < GLOBAL_LIMIT
        /\ CountAt(lim.daily, DAILY_WINDOW, now) < DAILY_LIMIT) =>
          /\ q.admitted
          /\ q.pc = "body"
          /\ q.response = NoAnswer

\* an admitted request never receives the limiter's denial
AdmittedNeverDenied ==
    /\ \A r \in 1..Len(posts) :
          posts[r].admitted => posts[r].response.retryAfter = 0
    /\ \A r \in 1..Len(analyses) :
          analyses[r].admitted => analyses[r].response.retryAfter = 0

\* C23: a request from a client at its per-client ceiling is answered 429
\* RATE_LIMIT with retryAfter > 0; a request from a client below its
\* ceiling, the global and daily tiers below theirs, is admitted and
\* processed, whatever the counts of other clients.
C23_PerClientDenialIsolated ==
    /\ []AdmittedNeverDenied
    /\ [][/\ Len(posts') > Len(posts) =>
                ArrivalHonoursClientTier(translateLimiter, posts'[Len(posts')],
                                         NoResponse)
          /\ Len(analyses') > Len(analyses) =>
                ArrivalHonoursClientTier(analyzeLimiter, analyses'[Len(analyses')],
                                         NoAnalyzeResponse)
         ]_vars

\* a client at its ceiling was denied and then, at the same instant, a
\* second client was admitted and answered 200
C23_Witness ==
    \E r1, r2 \in 1..Len(posts) :
        /\ r1 < r2
        /\ ticks = 0
    /\ voice = VoiceInitial
    /\ stats = StatsInitial
        /\ posts[r1].ip # posts[r2].ip
        /\ ~posts[r1].admitted
        /\ posts[r1].response.status = 429
        /\ posts[r1].response.retryAfter > 0
        /\ posts[r2].admitted
        /\ posts[r2].pc = "done"
        /\ posts[r2].response.status = 200

\* some tier that request q is subject to is at its ceiling at this moment
SomeTierFull(lim, q) ==
    \/ CountAt(lim.client[q.ip], PER_CLIENT_WINDOW, now) >= PER_CLIENT_LIMIT
    \/ CountAt(lim.global, GLOBAL_WINDOW, now) >= GLOBAL_LIMIT
    \/ CountAt(lim.daily, DAILY_WINDOW, now) >= DAILY_LIMIT

\* a tier at its ceiling whose window has not elapsed after the step is
\* still at its ceiling after the step
TierStaysFull(tier, tier2, window, limit) ==
    (CountAt(tier, window, now) >= limit /\ now' - tier.start < window)
        => CountAt(tier2, window, now') >= limit

LimiterStaysFull(lim, lim2) ==
    /\ \A ip \in ClientIPs :
          TierStaysFull(lim.client[ip], lim2.client[ip], PER_CLIENT_WINDOW,
                        PER_CLIENT_LIMIT)
    /\ TierStaysFull(lim.global, lim2.global, GLOBAL_WINDOW, GLOBAL_LIMIT)
    /\ TierStaysFull(lim.daily, lim2.daily, DAILY_WINDOW, DAILY_LIMIT)

\* C24: a request that arrives while a tier it is subject to is at its
\* ceiling is denied, and no step takes a tier from its ceiling before the
\* tier's window has elapsed, whatever else the step does.
C24_AdmissionMonotone ==
    [][/\ Len(posts') > Len(posts) =>
             (SomeTierFull(translateLimiter, posts'[Len(posts')])
                 => ~posts'[Len(posts')].admitted)
       /\ Len(analyses') > Len(analyses) =>
             (SomeTierFull(analyzeLimiter, analyses'[Len(analyses')])
                 => ~analyses'[Len(analyses')].admitted)
       /\ LimiterStaysFull(translateLimiter, translateLimiter')
       /\ LimiterStaysFull(analyzeLimiter, analyzeLimiter')
      ]_vars

\* a request was denied by the daily tier alone: its client and the global
\* tier are below their ceilings
C24_Witness ==
    \E r \in 1..Len(posts) :
        /\ ~posts[r].admitted
        /\ ticks = 0
    /\ voice = VoiceInitial
    /\ stats = StatsInitial
        /\ CountAt(translateLimiter.client[posts[r].ip], PER_CLIENT_WINDOW, now)
              < PER_CLIENT_LIMIT
        /\ CountAt(translateLimiter.global, GLOBAL_WINDOW, now) < GLOBAL_LIMIT
        /\ CountAt(translateLimiter.daily, DAILY_WINDOW, now) >= DAILY_LIMIT

(***************************************************************************)
(* Properties of the cache keys and of the cached results.                 *)
(***************************************************************************)
\* a key <<source, target, text>> with its text trimmed
TrimmedKey(key) == <<key[1], key[2], trim(key[3])>>

\* C25: no cache holds two entries for requests with equal operation
\* parameters and equal trimmed texts, and a request answered from a cache
\* is answered with the result of a request with the same parameters and
\* the same trimmed text.
C25_KeysEqualAfterTrim ==
    /\ \A i, j \in 1..Len(clientCache) :
          i # j => TrimmedKey(clientCache[i].key) # TrimmedKey(clientCache[j].key)
    /\ \A i, j \in 1..Len(translationCache) :
          i # j => TrimmedKey(translationCache[i].key)
                      # TrimmedKey(translationCache[j].key)
    /\ \A i, j \in 1..Len(analysisCache) :
          i # j => trim(analysisCache[i].key) # trim(analysisCache[j].key)
    /\ \A c \in 1..Len(calls) :
          calls[c].path = "hit" =>
              LET by == calls[promises[calls[c].outcome.response].by] IN
              /\ by.source = calls[c].source
              /\ by.target = calls[c].target
              /\ trim(by.text) = trim(calls[c].text)
    /\ \A r \in 1..Len(posts) :
          posts[r].response.cached =>
              LET by == posts[posts[r].response.translatedText] IN
              /\ by.source = posts[r].source
              /\ by.target = posts[r].target
              /\ trim(by.text) = trim(posts[r].text)
    /\ \A r \in 1..Len(analyses) :
          analyses[r].response.cached =>
              trim(analyses[analyses[r].response.tokens].text)
                  = trim(analyses[r].text)

\* the translate route in one step: the entry a request leaves is the
\* result it returns, and the answer to a hit is the entry found, younger
\* than the time to live
TranslationRoundTrip ==
    \A r \in 1..Len(posts) :
        /\ (posts[r].sizeAfterSet = -1 /\ posts'[r].sizeAfterSet # -1
              /\ MapHas(translationCache', PostKey(r))) =>
              /\ MapGet(translationCache', PostKey(r)).translatedText
                    = posts'[r].response.translatedText
              /\ MapGet(translationCache', PostKey(r)).romanization
                    = posts'[r].response.romanization
        /\ (~posts[r].response.cached /\ posts'[r].response.cached) =>
              /\ MapHas(translationCache, PostKey(r))
              /\ now - MapGet(translationCache, PostKey(r)).timestamp < CACHE_TTL
              /\ posts'[r].response.translatedText
                    = MapGet(translationCache, PostKey(r)).translatedText
              /\ posts'[r].response.romanization
                    = MapGet(translationCache, PostKey(r)).romanization

\* the same for the analyze route and its tokens
AnalysisRoundTrip ==
    \A r \in 1..Len(analyses) :
        /\ (analyses[r].sizeAfterSet = -1 /\ analyses'[r].sizeAfterSet # -1
              /\ MapHas(analysisCache', analyses[r].text)) =>
              MapGet(analysisCache', analyses[r].text).tokens
                  = analyses'[r].response.tokens
        /\ (~analyses[r].response.cached /\ analyses'[r].response.cached) =>
              /\ MapHas(analysisCache, analyses[r].text)
              /\ now - MapGet(analysisCache, analyses[r].text).timestamp
                    < ANALYSIS_CACHE_TTL
              /\ analyses'[r].response.tokens
                    = MapGet(analysisCache, analyses[r].text).tokens

\* the same for the client: the entry left when call p succeeds is the
\* response p is fulfilled with, and a hit returns the stored response
ClientRoundTrip ==
    /\ \A p \in 1..Len(promises) :
          (promises[p].outcome.state = "pending"
             /\ promises'[p].outcome.state = "fulfilled") =>
              /\ MapHas(clientCache', promises[p].key)
              /\ MapGet(clientCache', promises[p].key).response
                    = promises'[p].outcome.response
    /\ (Len(calls') > Len(calls) /\ calls'[Len(calls')].path = "hit") =>
          /\ MapHas(clientCache, calls'[Len(calls')].key)
          /\ now - MapGet(clientCache, calls'[Len(calls')].key).timestamp
                < CLIENT_CACHE_TTL
          /\ calls'[Len(calls')].outcome
                = Fulfilled(MapGet(clientCache, calls'[Len(calls')].key).response)

\* an entry that a step leaves in a cache is left as it was, unless the
\* step is the put of a request for its key
EntriesKept ==
    /\ \A i \in 1..Len(translationCache) :
          LET e == translationCache[i] IN
          (MapHas(translationCache', e.key) /\ MapGet(translationCache', e.key) # e)
              => \E r \in 1..Len(posts) :
                    /\ PostKey(r) = e.key
                    /\ posts[r].sizeAfterSet = -1
                    /\ posts'[r].sizeAfterSet # -1
    /\ \A i \in 1..Len(analysisCache) :
          LET e == analysisCache[i] IN
          (MapHas(analysisCache', e.key) /\ MapGet(analysisCache', e.key) # e)
              => \E r \in 1..Len(analyses) :
                    /\ analyses[r].text = e.key
                    /\ analyses[r].sizeAfterSet = -1
                    /\ analyses'[r].sizeAfterSet # -1
    /\ \A i \in 1..Len(clientCache) :
          LET e == clientCache[i] IN
          (MapHas(clientCache', e.key) /\ MapGet(clientCache', e.key) # e)
              => \E p \in 1..Len(promises) :
                    /\ promises[p].key = e.key
                    /\ promises[p].outcome.state = "pending"
                    /\ promises'[p].outcome.state = "fulfilled"

\* C26: what a request is answered with from a cache, before the entry's
\* time to live has passed, is what the request that put the entry was
\* answered with: translatedText and romanization on the translate route,
\* the tokens on the analyze route, the response on the client.
C26_CachedResultRoundTrip ==
    [][TranslationRoundTrip /\ AnalysisRoundTrip /\ ClientRoundTrip /\ EntriesKept]_vars

\* a request was answered from the entry that an earlier request of this
\* behaviour had put, romanization included
C26_Witness ==
    \E r, s \in 1..Len(posts) :
        /\ r # s
        /\ posts[r].response.cached
        /\ posts[s].sizeAfterSet # -1
        /\ posts[r].response.translatedText = posts[s].response.translatedText
        /\ posts[r].response.romanization = "romaji"
        /\ posts[s].response.romanization = "romaji"

\* a step in which some request puts its result into a cache
SomePut ==
    \/ \E r \in 1..Len(posts) :
          posts[r].sizeAfterSet = -1 /\ posts'[r].sizeAfterSet # -1
    \/ \E r \in 1..Len(analyses) :
          analyses[r].sizeAfterSet = -1 /\ analyses'[r].sizeAfterSet # -1
    \/ \E p \in 1..Len(promises) :
          /\ promises[p].outcome.state = "pending"
          /\ promises'[p].outcome.state = "fulfilled"

\* a step in which a request looks its key up: a call of the client that
\* gets past validation, a route's request at its cache lookup
SomeLookup ==
    \/ Len(calls') > Len(calls)
         /\ calls'[Len(calls')].path \in {"hit", "join", "dispatch"}
    \/ \E r \in 1..Len(posts) :
          posts[r].pc = "body" /\ posts'[r].pc # "body"
            /\ posts'[r].response.code # "INVALID_INPUT"
    \/ \E r \in 1..Len(analyses) :
          analyses[r].pc = "body" /\ analyses'[r].pc # "body"
            /\ analyses'[r].response.status # 400

\* the three caches, entries in their order, and the times of the last sweeps
CacheStores ==
    <<clientCache, translationCache, lastCleanupTime,
      analysisCache, analysisLastCleanupTime>>

\* C27: between two puts the caches stay as they are, entry by entry and
\* in their order: a lookup, a hit served to a caller included, changes
\* nothing, and no cleanup runs but as part of a put.  Repeated lookups of
\* a key with no put in between therefore find the same entry.
C27_LookupsLeaveCaches ==
    [][/\ ~SomePut => UNCHANGED CacheStores
       /\ SomeLookup => UNCHANGED CacheStores]_vars

\* a call of the client was answered from the cache, and the entry it was
\* answered from is still there
C27_Witness ==
    \E c \in 1..Len(calls) :
        /\ calls[c].path = "hit"
        /\ MapHas(clientCache, calls[c].key)
        /\ calls[c].outcome = Fulfilled(MapGet(clientCache, calls[c].key).response)
        /\ \E p \in 1..Len(promises) : promises[p].key = calls[c].key

(***************************************************************************)
(* Properties of the client layer when callers stop waiting.               *)
(***************************************************************************)
\* the invocations that were handed requestPromise p
CallersOf(p) == {c \in 1..Len(calls) : calls[c].promise = p}

\* an external call that has not settled can settle, once the job queue is
\* empty, and every invocation that has settled has the outcome of the call
\* it was handed, whoever stopped waiting
CallsRunOn ==
    /\ \A p \in 1..Len(promises) :
          (promises[p].io # "done" /\ microtasks = <<>>) =>
              ENABLED (\/ \E r \in FetchResults : FetchSettles(p, r)
                       \/ \E d \in JsonResults(TRUE) \cup JsonResults(FALSE) :
                             JsonSettles(p, d))
    /\ \A c \in 1..Len(calls) :
          (calls[c].promise # 0 /\ calls[c].settles > 0) =>
              /\ calls[c].settles = 1
              /\ IsSettled(calls[c].promise)
              /\ calls[c].outcome = promises[calls[c].promise].outcome

\* a caller that stops waiting changes nothing of the module; the stages of
\* an external call follow one another until it settles; a success is put
\* into the cache whether a caller waits or not
AbandonChangesNothing ==
    /\ (\E c \in 1..Len(calls) : calls[c].waiting /\ ~calls'[c].waiting) =>
          /\ UNCHANGED <<clientCache, pendingRequests, promises, microtasks>>
          /\ Len(calls') = Len(calls)
          /\ \A c \in 1..Len(calls) :
                calls'[c] = [calls[c] EXCEPT !.waiting = calls'[c].waiting]
    /\ \A p \in 1..Len(promises) :
          /\ promises'[p].io # promises[p].io =>
                <<promises[p].io, promises'[p].io>>
                    \in {<<"fetch", "json">>, <<"fetch", "done">>, <<"json", "done">>}
          /\ (promises[p].outcome.state = "pending"
                /\ promises'[p].outcome.state = "fulfilled") =>
                /\ MapHas(clientCache', promises[p].key)
                /\ MapGet(clientCache', promises[p].key).response
                      = promises'[p].outcome.response
                /\ MapGet(clientCache', promises[p].key).timestamp = now

\* C28: the client has no cancellation.  A dispatched external call goes on
\* to its completion or failure whatever the callers do, a caller that
\* stops waiting leaves the outcome of the other callers as it is, and a
\* success is written to the client cache even when no caller waits.
C28_NoCancellation == []CallsRunOn /\ [][AbandonChangesNothing]_vars

\* a call succeeded and was cached after both its callers, the one that
\* dispatched it and the one that joined it, had stopped waiting
C28_Witness ==
    \E p \in 1..Len(promises) :
        /\ promises[p].outcome.state = "fulfilled"
        /\ MapHas(clientCache, promises[p].key)
        /\ Cardinality(CallersOf(p)) = 2
        /\ \A c \in CallersOf(p) :
              /\ ~calls[c].waiting
              /\ calls[c].outcome = promises[p].outcome

(***************************************************************************)
(* Properties of the failures of the external calls.                       *)
(***************************************************************************)
\* the provider call of request r settles with g: the code of the answer is
\* the class of the failure, with the status where one is fixed, and the
\* answer is never a success
ProviderFailureClassified(r, g) ==
    LET response == posts'[r].response IN
    (PostFetchSettles(r, g) /\ ~(g.kind = "response" /\ g.status \in 200..299)) =>
        /\ posts'[r].pc = "done"
        /\ response.status >= 400
        /\ response.translatedText = 0 /\ response.romanization = ""
        /\ ~response.cached /\ response.retryAfter = 0
        /\ g.kind = "TypeError" =>
              response.code = "NETWORK_ERROR" /\ response.status = 503
        /\ (g.kind = "response" /\ g.status \in {401, 403}) =>
              response.code = "AUTH_ERROR"
        /\ (g.kind = "response" /\ g.status = 429) =>
              response.code = "RATE_LIMIT" /\ response.status = 429
        /\ (g.kind = "response" /\ g.status \notin {401, 403, 429}) =>
              response.code = "API_ERROR"

\* request r gets past validation and the cache without an API key: it is
\* answered AUTH_ERROR with status 500 and the provider is not called
MissingKeyClassified(r) ==
    (PostBody(r, FALSE) /\ ~PostInvalid(posts[r]) /\ ~TranslationCacheHit(PostKey(r))) =>
        /\ posts'[r].pc = "done"
        /\ ~posts'[r].fetched
        /\ posts'[r].response = ErrorResponse(500, "AUTH_ERROR")

\* the reading of the provider's body throws: API_ERROR with status 500
OtherExceptionClassified(r) ==
    PostJsonSettles(r, FALSE) =>
        /\ posts'[r].pc = "done"
        /\ posts'[r].response = ErrorResponse(500, "API_ERROR")

\* C29: the translate route classifies every failure of the external call.
\* No API key: AUTH_ERROR with status 500 and no provider call.  Provider
\* status 401 or 403: AUTH_ERROR; 429: RATE_LIMIT with status 429; another
\* status outside 2xx: API_ERROR.  fetch's TypeError: NETWORK_ERROR with
\* status 503; another exception: API_ERROR with status 500.  The answer
\* is never a success and carries nothing the provider sent.
C29_FailuresClassified ==
    [][\A r \in 1..Len(posts) :
          /\ \A g \in ProviderResults : ProviderFailureClassified(r, g)
          /\ MissingKeyClassified(r)
          /\ OtherExceptionClassified(r)]_vars

\* one request failed for the network, another for the missing API key
C29_Witness ==
    \E r, s \in 1..Len(posts) :
        /\ posts[r].fetched
        /\ posts[r].response = ErrorResponse(503, "NETWORK_ERROR")
        /\ ~posts[s].fetched
        /\ posts[s].response = ErrorResponse(500, "AUTH_ERROR")

(***************************************************************************)
(* Properties of the failures of the client.                               *)
(***************************************************************************)
\* the codes of the client, part_000 lines 258-265
CLIENT_ERROR_CODES == ERROR_CODES \cup {"OFFLINE"}

\* a call made while the browser reports offline: it fails with OFFLINE and
\* status 0, whatever its text, and takes no other path; the cache, the
\* registry, the calls in flight and the job queue are left as they are
OfflineFailsFirst ==
    \A q \in ClientRequests :
        /\ TranslateOffline(q.text, q.source, q.target, FALSE) =>
              /\ calls'[Len(calls')].outcome = Rejected("OFFLINE", 0)
              /\ UNCHANGED <<clientCache, pendingRequests, promises, microtasks>>
        /\ ~TranslateInvalid(q.text, q.source, q.target, FALSE)
        /\ ~TranslateCacheHit(q.text, q.source, q.target, FALSE)
        /\ ~TranslateJoin(q.text, q.source, q.target, FALSE)
        /\ ~TranslateDispatch(q.text, q.source, q.target, FALSE)
        /\ ~TranslateOffline(q.text, q.source, q.target, TRUE)

\* the external call p fails: NETWORK_ERROR with status 0 when fetch throws
\* its TypeError, the code of the body and the status of the response when
\* the server answered with an error, API_ERROR with status 500 when
\* something else is thrown
RequestFailureClassified(p) ==
    /\ FetchSettles(p, [kind |-> "TypeError", status |-> 0]) =>
          promises'[p].outcome = Rejected("NETWORK_ERROR", 0)
    /\ \A d \in JsonResults(FALSE) :
          (JsonSettles(p, d) /\ ~promises[p].ok /\ d.kind = "data") =>
              /\ promises[p].httpStatus \notin 200..299
              /\ promises'[p].outcome =
                    Rejected(IF d.code # "" THEN d.code ELSE "API_ERROR",
                             promises[p].httpStatus)
    /\ \A d \in JsonResults(TRUE) \cup JsonResults(FALSE) :
          (JsonSettles(p, d) /\ d.kind = "SyntaxError") =>
              promises'[p].outcome = Rejected("API_ERROR", 500)

\* every rejection, of an invocation or of a call, has a code of the
\* client's codes and a status
RejectionsStructured ==
    /\ \A c \in 1..Len(calls) :
          calls[c].outcome.state = "rejected" =>
              /\ calls[c].outcome.code \in CLIENT_ERROR_CODES
              /\ calls[c].outcome.status \in Nat
              /\ calls[c].outcome.code = "OFFLINE" => calls[c].path = "offline"
    /\ \A p \in 1..Len(promises) :
          promises[p].outcome.state = "rejected" =>
              /\ promises[p].outcome.code \in CLIENT_ERROR_CODES \ {"OFFLINE"}
              /\ promises[p].outcome.status \in Nat

SweepGated(cache, cache2, last, last2, put, sizeAfterSet, ttl, max, interval) ==
    /\ last2 >= last
    /\ last2 # last => put /\ last2 = now /\ last2 - last > interval
    /\ (put /\ now - last > interval) =>
          /\ last2 = now
          /\ \A i \in 1..Len(cache2) : now - cache2[i].timestamp <= ttl
    /\ (put /\ now - last <= interval) =>
          /\ last2 = last
          /\ sizeAfterSet <= max =>
                \A i \in 1..Len(cache) : MapHas(cache2, cache[i].key)

\* C31: the TTL sweep of cleanupCache runs only when more than
\* CLEANUP_INTERVAL has passed since lastCleanupTime and then sets
\* lastCleanupTime to the present time, so two sweeps are more than an
\* interval apart however many puts occur; when it does not run, entries
\* older than the TTL stay; lastCleanupTime never decreases.
C31_SweepGatedByInterval ==
    [][/\ SweepGated(translationCache, translationCache',
                     lastCleanupTime, lastCleanupTime',
                     \E r \in 1..Len(posts) :
                        posts[r].sizeAfterSet = -1 /\ posts'[r].sizeAfterSet # -1,
                     IF posts' = posts \/ Len(posts') # Len(posts) THEN 0
                     ELSE posts'[CHOOSE r \in 1..Len(posts) :
                                    posts'[r] # posts[r]].sizeAfterSet,
                     CACHE_TTL, MAX_CACHE_SIZE, CLEANUP_INTERVAL)
       /\ SweepGated(analysisCache, analysisCache',
                     analysisLastCleanupTime, analysisLastCleanupTime',
                     \E r \in 1..Len(analyses) :
                        analyses[r].sizeAfterSet = -1 /\ analyses'[r].sizeAfterSet # -1,
                     IF analyses' = analyses \/ Len(analyses') # Len(analyses) THEN 0
                     ELSE analyses'[CHOOSE r \in 1..Len(analyses) :
                                       analyses'[r] # analyses[r]].sizeAfterSet,
                     ANALYSIS_CACHE_TTL, ANALYSIS_MAX_CACHE_SIZE,
                     ANALYSIS_CLEANUP_INTERVAL)]_vars

\* a put swept at the start, the interval passed, and a second put, made
\* exactly one interval after the sweep, did not sweep
C31_Witness ==
    \E r, s \in 1..Len(posts) :
        /\ r # s
        /\ posts[r].sizeAfterSet # -1
        /\ posts[s].sizeAfterSet # -1
        /\ lastCleanupTime = StartTime
        /\ now = StartTime + CLEANUP_INTERVAL
        /\ MapHas(translationCache, PostKey(s))
        /\ MapGet(translationCache, PostKey(s)).timestamp = now

\* C32: the entry a request puts into the translation cache or the
\* analysis cache is in the cache after the cleanupCache that follows the
\* put, with the timestamp of the put, also when that cleanup sweeps and
\* evicts: a result is never evicted by its own insertion.
C32_PutSurvivesItsCleanup ==
    [][/\ \A r \in 1..Len(posts) :
             (posts[r].sizeAfterSet = -1 /\ posts'[r].sizeAfterSet # -1) =>
                 /\ MapHas(translationCache', PostKey(r))
                 /\ MapGet(translationCache', PostKey(r)).timestamp = now
                 /\ MapGet(translationCache', PostKey(r)).translatedText = r
       /\ \A r \in 1..Len(analyses) :
             (analyses[r].sizeAfterSet = -1 /\ analyses'[r].sizeAfterSet # -1) =>
                 /\ MapHas(analysisCache', analyses[r].text)
                 /\ MapGet(analysisCache', analyses[r].text).timestamp = now
                 /\ MapGet(analysisCache', analyses[r].text).tokens = r]_vars

\* the only put so far took the translation cache over its maximum; the
\* cleanup swept, evicted down to half the maximum and kept the new entry
C32_Witness ==
    /\ Len(posts) = 1
    /\ posts[1].sizeAfterSet = MAX_CACHE_SIZE + 1
    /\ lastCleanupTime = now
    /\ Len(translationCache) = MAX_CACHE_SIZE \div 2
    /\ MapHas(translationCache, PostKey(1))

(***************************************************************************)
(* Properties of the removal from the registry.                            *)
(***************************************************************************)
\* every entry that a step takes out of the registry, or replaces, is the
\* entry of the invocation that resumes in this step, and that invocation
\* dispatched and registered it; the reaction of a joined invocation
\* leaves the registry as it is
RemovedByItsOriginator ==
    /\ \A i \in 1..Len(pendingRequests) :
          LET e == pendingRequests[i]
              c == promises[e.promise].by
          IN (\/ ~MapHas(pendingRequests', e.key)
              \/ MapGet(pendingRequests', e.key).promise # e.promise) =>
                 /\ ~MapHas(pendingRequests', e.key)
                 /\ calls[c].path = "dispatch"
                 /\ calls[c].promise = e.promise
                 /\ calls[c].key = e.key
                 /\ calls[c].settles = 0
                 /\ calls'[c].settles = 1
    /\ (\E c \in 1..Len(calls) :
           calls[c].path = "join" /\ calls'[c].settles # calls[c].settles)
          => UNCHANGED pendingRequests

\* C33: an entry of pendingRequests is removed only by the invocation that
\* dispatched and registered it; a joined invocation never deletes, and
\* the delete of an originator never removes the entry of another call.
C33_OnlyOriginatorRemoves == [][RemovedByItsOriginator]_vars

\* an invocation resumed and deleted its entry while the registry held the
\* entry of a call dispatched before it, and that entry is still there
C33_Witness ==
    \E c, d \in 1..Len(calls) :
        /\ d < c
        /\ calls[c].path = "dispatch" /\ calls[c].settles = 1
        /\ ~MapHas(pendingRequests, calls[c].key)
        /\ calls[d].path = "dispatch" /\ calls[d].settles = 0
        /\ MapHas(pendingRequests, calls[d].key)
        /\ MapGet(pendingRequests, calls[d].key).promise = calls[d].promise

(***************************************************************************)
(* Properties of the put of the client.                                    *)
(***************************************************************************)
\* the invocation c of the next state has just been handed a success
ObservesSuccess(c) ==
    /\ calls'[c].outcome.state = "fulfilled"
    /\ c <= Len(calls) => calls[c].outcome.state = "pending"

\* the client cache changes only in the step in which an external call
\* succeeds, and that step puts the one entry of the call: its key, its
\* payload, the present time; the steps that hand the outcome to the
\* invocations come later and leave the cache as it is
PutOncePerSuccess ==
    /\ clientCache' # clientCache =>
          \E p \in 1..Len(promises) :
              /\ promises[p].outcome.state = "pending"
              /\ promises'[p].outcome.state = "fulfilled"
              /\ \A q \in 1..Len(promises) : promises'[q] # promises[q] => q = p
              /\ MapHas(clientCache', promises[p].key)
              /\ MapGet(clientCache', promises[p].key) =
                    [key |-> promises[p].key, response |-> ResponseOf(p),
                     timestamp |-> now]
              /\ \A i \in 1..Len(clientCache') :
                    clientCache'[i].key # promises[p].key =>
                        \E j \in 1..Len(clientCache) : clientCache[j] = clientCache'[i]
              /\ \A c \in 1..Len(calls) :
                    calls[c].promise = p => calls'[c].outcome.state = "pending"
    /\ \A p \in 1..Len(promises) :
          (promises[p].outcome.state = "pending"
             /\ promises'[p].outcome.state = "fulfilled") => clientCache' # clientCache

\* whenever an invocation is handed a success, the cache holds a fresh
\* entry for its key with the payload it is handed
SuccessFoundInCache ==
    \A c \in 1..Len(calls') :
        ObservesSuccess(c) =>
            /\ MapHas(clientCache', calls'[c].key)
            /\ MapGet(clientCache', calls'[c].key).response
                  = calls'[c].outcome.response
            /\ now' - MapGet(clientCache', calls'[c].key).timestamp < CLIENT_CACHE_TTL

\* C34: each successful external call puts its result into the client
\* cache exactly once, in the call itself and before any invocation is
\* handed the outcome, however many invocations joined; at the moment an
\* invocation is handed a success the cache holds a fresh entry for its
\* key with that payload.
C34_PutOnceBeforeDelivery == [][PutOncePerSuccess /\ SuccessFoundInCache]_vars

\* the invocation that dispatched a call and an invocation that joined it
\* were both handed its success, and the cache holds the one entry
C34_Witness ==
    \E c, j \in 1..Len(calls) :
        /\ calls[c].path = "dispatch" /\ calls[j].path = "join"
        /\ calls[j].promise = calls[c].promise
        /\ calls[c].outcome.state = "fulfilled"
        /\ calls[j].outcome = calls[c].outcome
        /\ MapHas(clientCache, calls[c].key)
        /\ MapGet(clientCache, calls[c].key).response = calls[c].outcome.response

(***************************************************************************)
(* Properties of the romanization.                                         *)
(***************************************************************************)
\* request r, whose provider call has succeeded, ends without romanization:
\* it is answered with the translation, and that result is in the cache
StoredWithoutRomanization(r) ==
    /\ posts'[r].pc = "done"
    /\ posts'[r].response = Response(200, "", r, "", FALSE, 0)
    /\ MapHas(translationCache', PostKey(r))
    /\ MapGet(translationCache', PostKey(r)) =
          [key |-> PostKey(r), translatedText |-> r, romanization |-> "",
           timestamp |-> now]

\* the analyzer fails for request r, in its construction or in convert;
\* whatever the analyzer does, a request that waits for it is not failed
AnalyzerFailureAbsorbed(r) ==
    /\ (PostKuroshiroSettles(r) /\ kuroshiroInits[posts[r].awaits] = "rejected")
          => StoredWithoutRomanization(r)
    /\ PostConvertSettles(r, "throws") => StoredWithoutRomanization(r)
    /\ (posts[r].pc \in {"kuroshiro", "convert"} /\ posts'[r] # posts[r]) =>
          /\ posts[r].target = "ja"
          /\ posts'[r].pc \in {"convert", "done"}
          /\ posts'[r].pc = "done" =>
                posts'[r].response.status = 200 /\ posts'[r].response.translatedText = r

\* an admitted, valid request r looks up a key whose entry has no
\* romanization and is younger than the TTL: it is answered from the entry,
\* with no provider call and no use of the analyzer
DegradedEntryServed(r) ==
    LET key == PostKey(r) IN
    (/\ posts[r].pc = "body" /\ posts'[r].pc # "body"
     /\ ~PostInvalid(posts[r])
     /\ MapHas(translationCache, key)
     /\ MapGet(translationCache, key).romanization = ""
     /\ now - MapGet(translationCache, key).timestamp < CACHE_TTL) =>
        /\ posts'[r].pc = "done"
        /\ posts'[r].response =
              Response(200, "", MapGet(translationCache, key).translatedText, "",
                       TRUE, 0)
        /\ ~posts'[r].fetched
        /\ UNCHANGED <<translationCache, kuroshiroInits, kuroshiroInitPromise,
                       kuroshiroInstance>>

\* C35: a failure of the analyzer, in its construction or in the
\* conversion, never fails a translation: the request to Japanese whose
\* provider call succeeded is answered with a success without romanization,
\* that result is put into the cache without romanization, and later
\* requests for the key are answered from it while it is younger than the
\* TTL.
C35_AnalyzerFailureAbsorbed ==
    [][\A r \in 1..Len(posts) :
          AnalyzerFailureAbsorbed(r) /\ DegradedEntryServed(r)]_vars

\* the construction a request waited for failed, the request stored its
\* translation without romanization, and a later request for the key was
\* answered from that entry
C35_Witness ==
    \E r, s \in 1..Len(posts) :
        /\ r < s
        /\ posts[r].awaits # 0
        /\ kuroshiroInits[posts[r].awaits] = "rejected"
        /\ posts[r].sizeAfterSet # -1
        /\ posts[r].response.romanization = ""
        /\ PostKey(s) = PostKey(r)
        /\ posts[s].response = Response(200, "", r, "", TRUE, 0)


(***************************************************************************)
(* Properties of the voice input hook.                                     *)
(***************************************************************************)
\* the recognition has been started and has not ended
SessionOpen == voice.session # "idle"

\* after onerror or onend, and until the next onstart
AfterErrorOrEnd == voice.session \in {"failed", "idle"}

\* C36: recognition.start() is never called while the recognition has been
\* started and has not ended, whatever the order of startListening,
\* stopListening and the events; and after onerror or onend isListening
\* is false.
C36_StartNeverOverlaps ==
    /\ ~voice.startedTwice
    /\ AfterErrorOrEnd => ~voice.isListening

\* the second half of C36 alone
ListeningFalseAfterErrorOrEnd == AfterErrorOrEnd => ~voice.isListening

\* start() called again before onstart has arrived
StartedTwiceBeforeOnStart ==
    /\ voice.startedTwice
    /\ voice.session = "started"
    /\ voice.error = "failed to start"

(***************************************************************************)
(* Properties of the stats store.                                          *)
(***************************************************************************)
\* what a step does to the counters of one mode
CorrectRaisesStreak(mode) ==
    IncrementTimedCorrectAnswers(mode) =>
        /\ stats'[mode].streak = stats[mode].streak + 1
        /\ stats'[mode].bestStreak =
              Max(stats[mode].bestStreak, stats[mode].streak + 1)

WrongEndsStreak(mode) ==
    IncrementTimedWrongAnswers(mode) => stats'[mode].streak = 0

ResetKeepsBest(mode) ==
    ResetTimedStats(mode) =>
        /\ stats'[mode].correctAnswers = 0
        /\ stats'[mode].wrongAnswers = 0
        /\ stats'[mode].streak = 0
        /\ stats'[mode].bestStreak = stats[mode].bestStreak

\* C37: in each timed mode, after any sequence of correct answers, wrong
\* answers and resets, the best streak is at least the streak and never
\* decreases; a correct answer raises the streak by one and the best streak
\* to the larger of itself and the new streak, a wrong answer sets the
\* streak to 0, and a reset sets the two counters and the streak to 0 and
\* leaves the best streak as it is.
C37_BestStreakBoundsStreak ==
    /\ [](\A mode \in TimedModes : stats[mode].bestStreak >= stats[mode].streak)
    /\ [][\A mode \in TimedModes :
            /\ stats'[mode].bestStreak >= stats[mode].bestStreak
            /\ CorrectRaisesStreak(mode)
            /\ WrongEndsStreak(mode)
            /\ ResetKeepsBest(mode)]_vars

\* a streak of two ended by a wrong answer in one mode, and in another mode
\* a best streak that a reset has left in place
C37_Witness ==
    \E mode, other \in TimedModes :
        /\ mode # other
        /\ stats[mode].bestStreak = 2
        /\ stats[mode].streak = 0
        /\ stats[mode].wrongAnswers = 1
        /\ stats[other].bestStreak >= 1
        /\ stats[other].correctAnswers = 0
        /\ stats[other].wrongAnswers = 0
============================================================================
